---------------------------- MODULE Spec2Model ----------------------------
(***************************************************************************)
(* A model of the tile-based mining game: the ore inventory, the pickaxe   *)
(* tier progression, the shop purchase of the pickaxe upgrade, the shop of *)
(* the stat upgrades, the tile world (generation and mining) and the key   *)
(* handling that ties them.                                                *)
(*                                                                         *)
(* Floats of the source are kept as integers in hundredths: a hardness of  *)
(* 1.2f is 120, a power of 7.0f is 700.  The code only halves a hardness   *)
(* and compares; halving is exact in binary floating point and commutes    *)
(* with rounding, so the comparisons agree with the integer ones.          *)
(***************************************************************************)
EXTENDS Integers, Sequences, FiniteSets

VARIABLES
    m_oreCounts,      \* std::map<OreType,int>: Inventory::m_oreCounts, or the map a caller hands to attemptUpgrade
    m_tier,           \* Pickaxe::m_tier
    m_power,          \* Pickaxe::m_power, in hundredths
    m_speed,          \* Pickaxe::m_speed, in hundredths
    m_tiles,          \* World::m_tiles: <<x, y>> -> Tile
    m_currentState,   \* UI::m_currentState
    m_previousState,  \* UI::m_previousState
    playerPos,        \* Player::m_sprite position, in pixels
    gen,              \* World::generateTerrain: the position of the generator and its loop variables
    probe,            \* the arguments a caller holds: of World::mineTile x, y, pickaxePower;
                      \* of Inventory::hasEnoughOres the map requiredOres
    speedUpgradeLevel,       \* Shop::speedUpgradeLevel
    rangeUpgradeLevel,       \* Shop::rangeUpgradeLevel
    multiplierUpgradeLevel,  \* Shop::multiplierUpgradeLevel
    m_isRunning,      \* Game::m_isRunning; the window is open exactly while it is true
    m_velocity,       \* Player::m_velocity, <<x, y>> in pixels per second
    ret               \* the last call made and what it returned

vars == <<m_oreCounts, m_tier, m_power, m_speed, m_tiles, m_currentState,
          m_previousState, playerPos, gen, probe,
          speedUpgradeLevel, rangeUpgradeLevel, multiplierUpgradeLevel,
          m_isRunning, m_velocity, ret>>

-----------------------------------------------------------------------------
(* Bounds of the model *)

\* Largest count of each kind an inventory is allowed to grow to.
MaxCopper == 10
MaxIron == 5
MaxGold == 3
MaxDiamond == 1
\* Quantity arguments range over -NegQty .. MaxQty.
MaxQty == 3
NegQty == 1
\* Most tiles direct calls of mineTile may break.
MaxMined == 1
\* World generation: the cave systems (8 to 12 in the source), the steps of a
\* cave's walk (20 to 49), the tiles a room leaves standing, the draws of the
\* first pass that miss their threshold, the ore seeds placed, and the tiles
\* a vein adds to its seed.
MaxCaves == 1
MaxCaveLength == 2
MaxSpared == 0
MaxMissed == 1
MaxSeeds == 2
MaxVeinTiles == 1
\* Highest level a shop purchase may take an upgrade track to.
MaxLevel == 5
\* Most entries of a requirement map handed to hasEnoughOres, the recipes aside.
MaxLines == 2
\* Farthest a point asked about lies from the ore on each axis, in pixels.
MaxOffset == 16
\* Largest mining range asked about, in pixels.
MaxRange == 5
\* Most events one frame finds pending.
MaxEvents == 2

-----------------------------------------------------------------------------
(* Ore.h / Ore.cpp *)

OreTypes == {"Copper", "Iron", "Gold", "Diamond"}

\* enum class OreType, by declaration order (the key order of the ore maps)
OreRank(k) ==
    CASE k = "Copper" -> 0
      [] k = "Iron" -> 1
      [] k = "Gold" -> 2
      [] k = "Diamond" -> 3

\* A faulty switch: every kind falls to the default case
getValue_Default(k) == 1

\* Ore::getValue
getValue(k) ==
    CASE k = "Copper" -> 1
      [] k = "Iron" -> 3
      [] k = "Gold" -> 8
      [] k = "Diamond" -> 20

\* Ore::Ore: the radius the constructor's switch gives the shape of each kind
getRadius(k) ==
    CASE k = "Copper" -> 8
      [] k = "Iron" -> 10
      [] k = "Gold" -> 12
      [] k = "Diamond" -> 15

\* std::sqrt against a whole number: the least whole number that is at least
\* the root of s. Positions and ranges are whole pixels here, so dx*dx + dy*dy
\* and range + radius are exact in float and the rounded root lies on the same
\* side of range + radius as the real one.
SqrtCeil(s) == CHOOSE n \in 0..s : n * n >= s /\ (n = 0 \/ (n - 1) * (n - 1) < s)

\* A faulty comparison: the boundary itself is out of range
isWithinRange_Strict(k, position, point, range) ==
    LET dx == point[1] - position[1]
        dy == point[2] - position[2]
    IN SqrtCeil(dx * dx + dy * dy) < range + getRadius(k)

\* Ore::isWithinRange: distance <= range + getRadius()
isWithinRange(k, position, point, range) ==
    LET dx == point[1] - position[1]
        dy == point[2] - position[2]
        distance == SqrtCeil(dx * dx + dy * dy)
    IN distance <= range + getRadius(k)

-----------------------------------------------------------------------------
(* Pickaxe.h / Pickaxe.cpp *)

PickaxeTiers == {"Wood", "Stone", "Iron", "Gold", "Diamond"}

\* enum class PickaxeTier, by declaration order
TierRank(t) ==
    CASE t = "Wood" -> 0
      [] t = "Stone" -> 1
      [] t = "Iron" -> 2
      [] t = "Gold" -> 3
      [] t = "Diamond" -> 4

\* A faulty table: every tier has the power of Wood
PowerOf_AlwaysWood(t) == 100

\* Pickaxe::initializeProperties, m_power in hundredths
PowerOf(t) ==
    CASE t = "Wood" -> 100
      [] t = "Stone" -> 200
      [] t = "Iron" -> 400
      [] t = "Gold" -> 700
      [] t = "Diamond" -> 1200

\* Pickaxe::initializeProperties, m_speed in hundredths
SpeedOf(t) ==
    CASE t = "Wood" -> 100
      [] t = "Stone" -> 120
      [] t = "Iron" -> 150
      [] t = "Gold" -> 200
      [] t = "Diamond" -> 300

\* A faulty test: every tier has a further upgrade
canUpgrade_Always(t) == TRUE

\* Pickaxe::canUpgrade
canUpgrade(t) == t # "Diamond"

\* A faulty successor: Wood goes straight to Iron
getNextTier_SkipsStone(t) ==
    CASE t = "Wood" -> "Iron"
      [] t = "Stone" -> "Iron"
      [] t = "Iron" -> "Gold"
      [] t = "Gold" -> "Diamond"
      [] t = "Diamond" -> "Diamond"

\* PickaxeUtils::getNextTier
getNextTier(t) ==
    CASE t = "Wood" -> "Stone"
      [] t = "Stone" -> "Iron"
      [] t = "Iron" -> "Gold"
      [] t = "Gold" -> "Diamond"
      [] t = "Diamond" -> "Diamond"

Ingredient(k, q) == [oreType |-> k, quantity |-> q]

\* Pickaxe::getRecipeForUpgrade (fromTier is unused by the code)
getRecipeForUpgrade(toTier) ==
    CASE toTier = "Stone" -> <<Ingredient("Copper", 5)>>
      [] toTier = "Iron" -> <<Ingredient("Copper", 8), Ingredient("Iron", 3)>>
      [] toTier = "Gold" -> <<Ingredient("Iron", 5), Ingredient("Gold", 2)>>
      [] toTier = "Diamond" -> <<Ingredient("Gold", 3), Ingredient("Diamond", 1)>>
      [] OTHER -> <<>>

\* Pickaxe::getUpgradeRecipe
getUpgradeRecipe(t) == getRecipeForUpgrade(getNextTier(t))

\* The loop of getUpgradeCost from ingredient i on: value times quantity, summed
RECURSIVE RecipeValue(_, _)
RecipeValue(recipe, i) ==
    IF i > Len(recipe)
    THEN 0
    ELSE getValue(recipe[i].oreType) * recipe[i].quantity + RecipeValue(recipe, i + 1)

\* A faulty sum: the quantities alone, every ore counted at value 1
getUpgradeCost_Quantities(t) ==
    IF ~canUpgrade(t)
    THEN 0
    ELSE LET recipe == getUpgradeRecipe(t)
             Quantity[i \in 0..Len(recipe)] ==
                 IF i = 0 THEN 0 ELSE Quantity[i - 1] + recipe[i].quantity
         IN Quantity[Len(recipe)]

\* Pickaxe::getUpgradeCost
getUpgradeCost(t) ==
    IF ~canUpgrade(t)
    THEN 0
    ELSE RecipeValue(getUpgradeRecipe(t), 1)

\* A faulty first loop: a kind missing from the map is not counted as short
IngredientShort_PresentOnly(ores, ing) ==
    /\ ing.oreType \in DOMAIN ores
    /\ ores[ing.oreType] < ing.quantity

\* The first loop of attemptUpgrade: one ingredient is short when its kind is
\* missing from the map or its count is below the quantity.
IngredientShort(ores, ing) ==
    \/ ing.oreType \notin DOMAIN ores
    \/ ores[ing.oreType] < ing.quantity

\* availableOres[k] -= q (operator[] inserts 0 for a missing key)
SubtractOre(ores, k, q) ==
    IF k \in DOMAIN ores
    THEN [ores EXCEPT ![k] = @ - q]
    ELSE [j \in DOMAIN ores \cup {k} |-> IF j = k THEN 0 - q ELSE ores[j]]

\* A faulty second loop: it stops after the first ingredient
ConsumeRecipe_FirstLine(ores, recipe, i) ==
    IF i > Len(recipe) THEN ores
    ELSE SubtractOre(ores, recipe[i].oreType, recipe[i].quantity)

\* The second loop of attemptUpgrade: every ingredient deducted, in order.
RECURSIVE ConsumeRecipe(_, _, _)
ConsumeRecipe(ores, recipe, i) ==
    IF i > Len(recipe) THEN ores
    ELSE ConsumeRecipe(SubtractOre(ores, recipe[i].oreType, recipe[i].quantity),
                       recipe, i + 1)

\* Pickaxe::attemptUpgrade as a function of the tier and the map it is handed:
\* what it returns, and the tier and map it leaves.
attemptUpgradeOn(t, ores) ==
    LET recipe == getUpgradeRecipe(t) IN
    IF ~canUpgrade(t)
    THEN [ok |-> FALSE, tier |-> t, ores |-> ores]
    ELSE IF \E i \in 1..Len(recipe) : IngredientShort(ores, recipe[i])
    THEN [ok |-> FALSE, tier |-> t, ores |-> ores]
    ELSE [ok |-> TRUE, tier |-> getNextTier(t), ores |-> ConsumeRecipe(ores, recipe, 1)]

-----------------------------------------------------------------------------
(* Inventory.h / Inventory.cpp *)

\* Inventory::Inventory: every kind present with count 0
EmptyInventory == [k \in OreTypes |-> 0]

\* Inventory::getOreCount
getOreCount(ores, k) == IF k \in DOMAIN ores THEN ores[k] ELSE 0

\* The counts are ints (std::map<OreType, int>)
INT_MAX == 2147483647
INT_MIN == (0 - INT_MAX) - 1

\* c + q is outside int for a count c and a quantity q > 0: signed overflow,
\* which the language leaves undefined
Overflows(c, q) == q > 0 /\ c > INT_MAX - q

\* c + q as a build that wraps around computes it
PlusInt(c, q) ==
    IF Overflows(c, q) THEN (c - INT_MAX - 1) + (q - INT_MAX - 1) ELSE c + q

\* m_oreCounts[k] += q and m_oreCounts[k]++ (operator[] inserts 0 for a missing key)
IncrementOre(ores, k, q) ==
    IF k \in DOMAIN ores
    THEN [ores EXCEPT ![k] = PlusInt(@, q)]
    ELSE [j \in DOMAIN ores \cup {k} |-> IF j = k THEN q ELSE ores[j]]

\* Inventory::addOres as a function of the map
addOresOn(ores, k, q) == IF q > 0 THEN IncrementOre(ores, k, q) ELSE ores

\* A faulty removeOres: short of the quantity, it takes what is there and returns false
removeOresOn_TakesWhatIsThere(ores, k, q) ==
    IF q <= 0 THEN [ok |-> TRUE, ores |-> ores]
    ELSE IF k \notin DOMAIN ores THEN [ok |-> FALSE, ores |-> ores]
    ELSE IF ores[k] < q THEN [ok |-> FALSE, ores |-> [ores EXCEPT ![k] = 0]]
    ELSE [ok |-> TRUE, ores |-> [ores EXCEPT ![k] = @ - q]]

\* Inventory::removeOres as a function of the map: what it returns and the map it leaves
removeOresOn(ores, k, q) ==
    IF q <= 0 THEN [ok |-> TRUE, ores |-> ores]
    ELSE IF k \notin DOMAIN ores \/ ores[k] < q THEN [ok |-> FALSE, ores |-> ores]
    ELSE [ok |-> TRUE, ores |-> [ores EXCEPT ![k] = @ - q]]

\* a + b of two ints is outside int: signed overflow, which the language
\* leaves undefined
SumOverflows(a, b) ==
    \/ b > 0 /\ a > INT_MAX - b
    \/ b < 0 /\ a < INT_MIN - b

\* a + b as a build that wraps around computes it
SumInt(a, b) ==
    IF b > 0 /\ a > INT_MAX - b THEN (a - INT_MAX - 1) + (b - INT_MAX - 1)
    ELSE IF b < 0 /\ a < INT_MIN - b THEN (a + INT_MAX + 1) + (b + INT_MAX + 1)
    ELSE a + b

\* value * count of a trade value and a count > 0 is outside int
TimesOverflows(value, count) == count > INT_MAX \div value

\* value * count as a build that wraps around computes it
RECURSIVE TimesInt(_, _)
TimesInt(value, count) ==
    IF value = 0 THEN 0 ELSE SumInt(TimesInt(value - 1, count), count)

\* The keys of std::map<OreType, int> in the order a range-for visits them
KindsInOrder == <<"Copper", "Iron", "Gold", "Diamond">>

\* What a loop over the map has in its int so far, and whether an operation
\* on it has overflowed
LoopStart == [val |-> 0, overflow |-> FALSE]

\* The loop of getTotalOreCount from the i-th key on: total += pair.second
RECURSIVE CountLoop(_, _, _)
CountLoop(ores, i, total) ==
    IF i > Len(KindsInOrder) THEN total
    ELSE IF KindsInOrder[i] \notin DOMAIN ores THEN CountLoop(ores, i + 1, total)
    ELSE CountLoop(ores, i + 1,
                   [val |-> SumInt(total.val, ores[KindsInOrder[i]]),
                    overflow |-> total.overflow \/ SumOverflows(total.val, ores[KindsInOrder[i]])])

\* Inventory::getTotalOreCount
getTotalOreCount(ores) == CountLoop(ores, 1, LoopStart)

\* The loop of getTotalValue from the i-th key on: for a count above 0,
\* totalValue += getValue() * pair.second
RECURSIVE ValueLoop(_, _, _)
ValueLoop(ores, i, total) ==
    IF i > Len(KindsInOrder) THEN total
    ELSE IF KindsInOrder[i] \notin DOMAIN ores \/ ~(ores[KindsInOrder[i]] > 0)
    THEN ValueLoop(ores, i + 1, total)
    ELSE LET k == KindsInOrder[i]
             worth == TimesInt(getValue(k), ores[k])
         IN ValueLoop(ores, i + 1,
                      [val |-> SumInt(total.val, worth),
                       overflow |-> \/ total.overflow
                                    \/ TimesOverflows(getValue(k), ores[k])
                                    \/ SumOverflows(total.val, worth)])

\* Inventory::getTotalValue
getTotalValue(ores) == ValueLoop(ores, 1, LoopStart)

\* Inventory::isEmpty: getTotalOreCount() == 0
isEmpty(ores) ==
    [val |-> getTotalOreCount(ores).val = 0, overflow |-> getTotalOreCount(ores).overflow]

\* A faulty loop: it returns after the first requirement, met or not
hasEnoughOres_FirstLineOnly(ores, requiredOres) ==
    \A k \in DOMAIN requiredOres :
        (\A j \in DOMAIN requiredOres : OreRank(k) <= OreRank(j)) =>
            ~(getOreCount(ores, k) < requiredOres[k])

\* Inventory::hasEnoughOres
hasEnoughOres(ores, requiredOres) ==
    \A k \in DOMAIN requiredOres : ~(getOreCount(ores, k) < requiredOres[k])

\* UI::attemptPurchase builds requiredOres, a map from each kind of the recipe to its quantity
RecipeAsMap(recipe) ==
    [k \in {recipe[i].oreType : i \in 1..Len(recipe)} |->
        recipe[CHOOSE i \in 1..Len(recipe) :
                  /\ recipe[i].oreType = k
                  /\ \A j \in 1..Len(recipe) : recipe[j].oreType = k => j <= i].quantity]

\* for (requirement : requiredOres) removeOres(first, second), in key order; the results are dropped
RECURSIVE RemoveAll(_, _, _)
RemoveAll(ores, requiredOres, kinds) ==
    IF kinds = {} THEN ores
    ELSE LET k == CHOOSE j \in kinds : \A l \in kinds : OreRank(j) <= OreRank(l) IN
         RemoveAll(removeOresOn(ores, k, requiredOres[k]).ores, requiredOres, kinds \ {k})

\* UI::attemptPurchase as a function of the player's pickaxe tier and inventory map
attemptPurchaseOn(t, ores) ==
    LET requiredOres == RecipeAsMap(getUpgradeRecipe(t)) IN
    IF ~canUpgrade(t) THEN [tier |-> t, ores |-> ores]
    ELSE IF ~hasEnoughOres(ores, requiredOres) THEN [tier |-> t, ores |-> ores]
    ELSE LET paid == RemoveAll(ores, requiredOres, DOMAIN requiredOres)
             up == attemptUpgradeOn(t, paid)
         IN [tier |-> up.tier, ores |-> up.ores]

-----------------------------------------------------------------------------
(* World.h / World.cpp *)

\* The grid of the model.  The source's world is 100 x 50; the model keeps its
\* layering in a smaller grid.
WORLD_WIDTH == 3
WORLD_HEIGHT == 10
TILE_SIZE == 32

\* The layering of generateTerrain, fitted to the height of the model: rows
\* y < 3 are surface and rows y < 8 shallow in the source, and the ore bands
\* start at rows 5, 10, 15 and 25.  As in the source the copper band starts
\* inside the shallow rows and every band ends at WORLD_HEIGHT - 5.
SURFACE_ROWS == 2
SHALLOW_END == 3
COPPER_MIN_DEPTH == 2
IRON_MIN_DEPTH == 3
GOLD_MIN_DEPTH == 4
DIAMOND_MIN_DEPTH == 5
ORE_BOTTOM_MARGIN == 5

TileTypes == {"Air", "Stone", "Dirt", "Bedrock", "OreCopper", "OreIron", "OreGold", "OreDiamond"}

Coords == (0..(WORLD_WIDTH - 1)) \X (0..(WORLD_HEIGHT - 1))

Tile(t, h, solid) == [type |-> t, hardness |-> h, isSolid |-> solid]

\* World::getTileProperties, hardness in hundredths
getTileProperties(t) ==
    CASE t = "Air" -> Tile(t, 0, FALSE)
      [] t = "Dirt" -> Tile(t, 50, TRUE)
      [] t = "Stone" -> Tile(t, 100, TRUE)
      [] t = "Bedrock" -> Tile(t, 100000, TRUE)
      [] t = "OreCopper" -> Tile(t, 120, TRUE)
      [] t = "OreIron" -> Tile(t, 150, TRUE)
      [] t = "OreGold" -> Tile(t, 200, TRUE)
      [] t = "OreDiamond" -> Tile(t, 300, TRUE)

\* World::isValidCoordinate
isValidCoordinate(x, y) == x >= 0 /\ x < WORLD_WIDTH /\ y >= 0 /\ y < WORLD_HEIGHT

\* A faulty getTileType: outside the grid there is nothing, Air
getTileType_AirOutside(tiles, x, y) ==
    IF ~isValidCoordinate(x, y) THEN "Air" ELSE tiles[<<x, y>>].type

\* World::getTileType
getTileType(tiles, x, y) ==
    IF ~isValidCoordinate(x, y) THEN "Bedrock" ELSE tiles[<<x, y>>].type

\* World::isTileSolid
isTileSolid(tiles, x, y) ==
    IF ~isValidCoordinate(x, y) THEN TRUE ELSE tiles[<<x, y>>].isSolid

\* A faulty hardness test: a power of exactly half the hardness is too weak
TooWeak_AtHalf(pickaxePower, hardness) == pickaxePower <= hardness \div 2

\* pickaxePower < tile.hardness * 0.5f, in hundredths (every hardness is even)
TooWeak(pickaxePower, hardness) == pickaxePower < hardness \div 2

\* A faulty switch: every ore tile drops copper
DroppedOre_AlwaysCopper(t) ==
    IF t \in {"OreCopper", "OreIron", "OreGold", "OreDiamond"} THEN "Copper" ELSE "none"

\* The switch of World::mineTile: the ore a tile type drops
DroppedOre(t) ==
    CASE t = "OreCopper" -> "Copper"
      [] t = "OreIron" -> "Iron"
      [] t = "OreGold" -> "Gold"
      [] t = "OreDiamond" -> "Diamond"
      [] OTHER -> "none"

\* A faulty mineTile: no test for Air and Bedrock, the hardness alone decides
mineTileOn_HardnessOnly(tiles, x, y, pickaxePower) ==
    IF ~isValidCoordinate(x, y) THEN [ore |-> "none", tiles |-> tiles]
    ELSE LET tile == tiles[<<x, y>>] IN
         IF TooWeak(pickaxePower, tile.hardness) THEN [ore |-> "none", tiles |-> tiles]
         ELSE [ore |-> DroppedOre(tile.type),
               tiles |-> [tiles EXCEPT ![<<x, y>>] = getTileProperties("Air")]]

\* A faulty replacement: the mined tile gets the type Air and keeps its
\* hardness and solidity
mineTileOn_TypeOnly(tiles, x, y, pickaxePower) ==
    IF ~isValidCoordinate(x, y) THEN [ore |-> "none", tiles |-> tiles]
    ELSE LET tile == tiles[<<x, y>>] IN
         IF tile.type = "Air" \/ tile.type = "Bedrock" THEN [ore |-> "none", tiles |-> tiles]
         ELSE IF TooWeak(pickaxePower, tile.hardness) THEN [ore |-> "none", tiles |-> tiles]
         ELSE [ore |-> DroppedOre(tile.type),
               tiles |-> [tiles EXCEPT ![<<x, y>>].type = "Air"]]

\* World::mineTile as a function of the grid: the ore it returns ("none" for
\* nullptr) and the grid it leaves
mineTileOn(tiles, x, y, pickaxePower) ==
    IF ~isValidCoordinate(x, y) THEN [ore |-> "none", tiles |-> tiles]
    ELSE LET tile == tiles[<<x, y>>] IN
         IF tile.type = "Air" \/ tile.type = "Bedrock" THEN [ore |-> "none", tiles |-> tiles]
         ELSE IF TooWeak(pickaxePower, tile.hardness) THEN [ore |-> "none", tiles |-> tiles]
         ELSE [ore |-> DroppedOre(tile.type),
               tiles |-> [tiles EXCEPT ![<<x, y>>] = getTileProperties("Air")]]

\* The subsets of S with at most n elements
RECURSIVE SubsetsUpTo(_, _)
SubsetsUpTo(S, n) ==
    IF n = 0 THEN {{}}
    ELSE LET smaller == SubsetsUpTo(S, n - 1) IN
         smaller \cup {T \cup {c} : T \in smaller, c \in S}

\* World::World: the grid before generateTerrain, default-constructed tiles
BlankWorld == [c \in Coords |-> Tile("Air", 100, FALSE)]

\* The first pass of generateTerrain.  Two kinds of cell draw a number: the
\* last surface row is Dirt when the draw is below 0.7 and Air otherwise, the
\* shallow rows are Dirt when it is below 0.8 and Stone otherwise.
DrawingCells == {c \in Coords : c[2] >= SURFACE_ROWS - 1 /\ c[2] < SHALLOW_END}

LayerType(x, y, missed) ==
    IF y < SURFACE_ROWS
    THEN (IF y = SURFACE_ROWS - 1 /\ <<x, y>> \notin missed THEN "Dirt" ELSE "Air")
    ELSE IF y < SHALLOW_END
    THEN (IF <<x, y>> \notin missed THEN "Dirt" ELSE "Stone")
    ELSE IF y < WORLD_HEIGHT - 2 THEN "Stone"
    ELSE "Bedrock"

generateLayers(missed) == [c \in Coords |-> getTileProperties(LayerType(c[1], c[2], missed))]

\* generateCaves: the cells of the room around (currentX, currentY)
RoomCells(currentX, currentY, roomSize) ==
    {c \in ((currentX - roomSize)..(currentX + roomSize))
              \X ((currentY - roomSize)..(currentY + roomSize)) : TRUE}

\* A faulty test: every cell of the grid may be carved
Carvable_AnyType(tiles, c) == isValidCoordinate(c[1], c[2])

\* generateCaves: the test a cell of a room passes before its draw
Carvable(tiles, c) == isValidCoordinate(c[1], c[2]) /\ tiles[c].type # "Bedrock"

\* generateCaves: one room carved; spared are the cells whose draw was not below 0.8
carveRoom(tiles, currentX, currentY, roomSize, spared) ==
    LET room == RoomCells(currentX, currentY, roomSize) IN
    [c \in Coords |->
        IF c \in room /\ Carvable(tiles, c) /\ c \notin spared
        THEN getTileProperties("Air")
        ELSE tiles[c]]

Max(a, b) == IF a >= b THEN a ELSE b
Min(a, b) == IF a <= b THEN a ELSE b

\* generateCaves: the step in one of four directions, kept within bounds
MoveCave(currentX, currentY, direction) ==
    LET nx == CASE direction = 0 -> currentX + 1
                [] direction = 1 -> currentX - 1
                [] OTHER -> currentX
        ny == CASE direction = 2 -> currentY + 1
                [] direction = 3 -> currentY - 1
                [] OTHER -> currentY
    IN <<Max(1, Min(WORLD_WIDTH - 2, nx)), Max(SHALLOW_END, Min(WORLD_HEIGHT - 3, ny))>>

\* generateCaves: the rows a cave may start in (8 + rng % (WORLD_HEIGHT - 15)
\* in the source: from the end of the shallow rows to 8 rows above the bottom)
CaveStartRows == SHALLOW_END..Max(SHALLOW_END, WORLD_HEIGHT - 4)

\* The four calls of placeOres in generateTerrain, in order
OrePasses ==
    <<[oreType |-> "OreCopper", minDepth |-> COPPER_MIN_DEPTH],
      [oreType |-> "OreIron", minDepth |-> IRON_MIN_DEPTH],
      [oreType |-> "OreGold", minDepth |-> GOLD_MIN_DEPTH],
      [oreType |-> "OreDiamond", minDepth |-> DIAMOND_MIN_DEPTH]>>

\* placeOres: the position of a cell in the scan, rows first
ScanIndex(c) == c[2] * WORLD_WIDTH + c[1]

\* A faulty scan: a pass also takes the cells an earlier pass turned to ore
SeedCells_OverEarlierOre(tiles, pass, cursor) ==
    {c \in Coords :
        /\ c[2] >= OrePasses[pass].minDepth
        /\ c[2] <= WORLD_HEIGHT - ORE_BOTTOM_MARGIN
        /\ ScanIndex(c) >= cursor
        /\ \/ tiles[c].type = "Stone"
           \/ \E earlier \in 1..(pass - 1) : tiles[c].type = OrePasses[earlier].oreType}

\* placeOres: the cells of the pass still ahead of the scan that hold Stone
SeedCells(tiles, pass, cursor) ==
    {c \in Coords :
        /\ c[2] >= OrePasses[pass].minDepth
        /\ c[2] <= WORLD_HEIGHT - ORE_BOTTOM_MARGIN
        /\ ScanIndex(c) >= cursor
        /\ tiles[c].type = "Stone"}

\* A faulty vein: every neighbour inside the grid may be taken, whatever it holds
VeinCells_AnyType(tiles, c) ==
    {n \in ((c[1] - 1)..(c[1] + 1)) \X ((c[2] - 1)..(c[2] + 1)) :
        isValidCoordinate(n[1], n[2])}

\* placeOres: the neighbours a vein may take
VeinCells(tiles, c) ==
    {n \in ((c[1] - 1)..(c[1] + 1)) \X ((c[2] - 1)..(c[2] + 1)) :
        isValidCoordinate(n[1], n[2]) /\ tiles[n].type = "Stone"}

\* placeOres: a seed placed at c and the vein cells converted with it
placeOre(tiles, oreType, c, vein) ==
    [n \in Coords |-> IF n = c \/ n \in vein THEN getTileProperties(oreType) ELSE tiles[n]]

\* static_cast<int>(a / b) of a float quotient: truncation toward zero
TruncDiv(a, b) == IF a >= 0 THEN a \div b ELSE 0 - ((0 - a) \div b)

\* World::worldToTile
worldToTile(worldX, worldY) == <<TruncDiv(worldX, TILE_SIZE), TruncDiv(worldY, TILE_SIZE)>>

-----------------------------------------------------------------------------
(* Player.h / Player.cpp *)

\* Player::m_speed in pixels per second, and the side of the player's bounds
PLAYER_SPEED == 150
PLAYER_SIZE == 32

\* Player::attemptMining as a function of the grid, the inventory map and the
\* pickaxe power
attemptMiningOn(tiles, ores, worldX, worldY, power) ==
    LET tileType == getTileType(tiles, worldX, worldY) IN
    IF tileType = "Air" THEN [tiles |-> tiles, ores |-> ores]
    ELSE IF tileType = "Bedrock" THEN [tiles |-> tiles, ores |-> ores]
    ELSE LET mined == mineTileOn(tiles, worldX, worldY, power) IN
         IF mined.ore # "none"
         THEN [tiles |-> mined.tiles, ores |-> IncrementOre(ores, mined.ore, 1)]
         ELSE [tiles |-> mined.tiles, ores |-> ores]

\* The tile a Space press mines: the one below the tile under the sprite's centre
MiningTarget(pos) ==
    LET playerTile == worldToTile(pos[1] + 16, pos[2] + 16) IN
    <<playerTile[1], playerTile[2] + 1>>

\* Player::handleInput for a KeyPressed event (I and P only print)
handleInputOn(key, pos, tiles, ores, power) ==
    IF key = "Space"
    THEN attemptMiningOn(tiles, ores, MiningTarget(pos)[1], MiningTarget(pos)[2], power)
    ELSE [tiles |-> tiles, ores |-> ores]

\* Player::checkCollision: TRUE when no tile under the 32x32 bounds at
\* newPosition is solid (the casts to int truncate toward zero)
checkCollision(newPosition, tiles) ==
    LET leftTile == TruncDiv(newPosition[1], TILE_SIZE)
        rightTile == TruncDiv(newPosition[1] + PLAYER_SIZE - 1, TILE_SIZE)
        topTile == TruncDiv(newPosition[2], TILE_SIZE)
        bottomTile == TruncDiv(newPosition[2] + PLAYER_SIZE - 1, TILE_SIZE)
    IN \A y \in topTile..bottomTile : \A x \in leftTile..rightTile :
           ~isTileSolid(tiles, x, y)

\* Player::update with the movement keys held giving the direction movement
\* (one axis at a time, so nothing is normalised) and deltaTime in hundredths
\* of a second: handleMovement sets the velocity, then the step is taken or
\* the velocity is zeroed
updateOn(pos, movement, deltaTime, tiles) ==
    LET velocity == <<movement[1] * PLAYER_SPEED, movement[2] * PLAYER_SPEED>>
        newPosition == <<pos[1] + (velocity[1] * deltaTime) \div 100,
                         pos[2] + (velocity[2] * deltaTime) \div 100>>
    IN IF checkCollision(newPosition, tiles)
       THEN [pos |-> newPosition, velocity |-> velocity]
       ELSE [pos |-> pos, velocity |-> <<0, 0>>]

-----------------------------------------------------------------------------
(* UI.h / UI.cpp *)

\* The cap of Game::run on deltaTime, in hundredths of a second
MAX_DELTA_TIME == 10

UIStates == {"Game", "Inventory", "Shop", "Paused"}

Keys == {"Space", "Escape", "I", "B", "P", "Other"}

\* UI::setState
setState(ui, newState) ==
    IF newState # ui.current
    THEN [current |-> newState, previous |-> ui.current]
    ELSE ui

\* A faulty toggle: I opens the inventory and never closes it
toggleInventory_OpensOnly(ui) == setState(ui, "Inventory")

\* UI::toggleInventory
toggleInventory(ui) ==
    IF ui.current = "Inventory" THEN setState(ui, "Game") ELSE setState(ui, "Inventory")

\* UI::toggleShop
toggleShop(ui) ==
    IF ui.current = "Shop" THEN setState(ui, "Game") ELSE setState(ui, "Shop")

\* A faulty handler: a key the UI has no use for brings the game back
handleEvent_AnyKeyResumes(ui, key) ==
    CASE key = "Escape" -> (IF ui.current = "Game" THEN setState(ui, "Paused")
                            ELSE setState(ui, "Game"))
      [] key = "I" -> toggleInventory(ui)
      [] key = "B" -> toggleShop(ui)
      [] OTHER -> setState(ui, "Game")

\* UI::handleEvent for a KeyPressed event
handleEvent(ui, key) ==
    CASE key = "Escape" -> (IF ui.current = "Game" THEN setState(ui, "Paused")
                            ELSE setState(ui, "Game"))
      [] key = "I" -> toggleInventory(ui)
      [] key = "B" -> toggleShop(ui)
      [] OTHER -> ui

\* A faulty loop: Escape clears the flag as the Closed event does
RECURSIVE processEvents_EscapeQuits(_, _, _)
processEvents_EscapeQuits(g, events, pos) ==
    IF events = <<>> \/ ~g.running THEN g
    ELSE LET event == Head(events) IN
         IF event \in {"Closed", "Escape"}
         THEN processEvents_EscapeQuits([g EXCEPT !.running = FALSE], Tail(events), pos)
         ELSE LET ui == handleEvent(g.ui, event)
                  r == IF ui.current = "Game"
                       THEN handleInputOn(event, pos, g.tiles, g.ores, g.power)
                       ELSE [tiles |-> g.tiles, ores |-> g.ores]
              IN processEvents_EscapeQuits([g EXCEPT !.ui = ui, !.tiles = r.tiles,
                                                       !.ores = r.ores],
                                           Tail(events), pos)

\* Game::processEvents: the pending events in order, each to the UI first and
\* to the player if the UI is then in the Game state. A Closed event clears
\* the flag and closes the window, and a closed window yields no more events.
RECURSIVE processEvents(_, _, _)
processEvents(g, events, pos) ==
    IF events = <<>> \/ ~g.running THEN g
    ELSE LET event == Head(events) IN
         IF event = "Closed"
         THEN processEvents([g EXCEPT !.running = FALSE], Tail(events), pos)
         ELSE LET ui == handleEvent(g.ui, event)
                  r == IF ui.current = "Game"
                       THEN handleInputOn(event, pos, g.tiles, g.ores, g.power)
                       ELSE [tiles |-> g.tiles, ores |-> g.ores]
              IN processEvents([g EXCEPT !.ui = ui, !.tiles = r.tiles, !.ores = r.ores],
                               Tail(events), pos)

-----------------------------------------------------------------------------
(* Shop.h / Shop.cpp *)

\* struct Shop::UpgradeCost
UpgradeCost(c, i, g, d) == [copper |-> c, iron |-> i, gold |-> g, diamond |-> d]

\* A faulty table: the flat cost of the high levels asks for fewer diamonds
\* than level 3 does
getSpeedUpgradeCost_CheapHighLevels(level) ==
    CASE level = 0 -> UpgradeCost(10, 0, 0, 0)
      [] level = 1 -> UpgradeCost(20, 5, 0, 0)
      [] level = 2 -> UpgradeCost(50, 15, 3, 0)
      [] level = 3 -> UpgradeCost(100, 30, 10, 1)
      [] OTHER -> UpgradeCost(200, 50, 20, 0)

\* Shop::getSpeedUpgradeCost, a switch on speedUpgradeLevel
getSpeedUpgradeCost(level) ==
    CASE level = 0 -> UpgradeCost(10, 0, 0, 0)
      [] level = 1 -> UpgradeCost(20, 5, 0, 0)
      [] level = 2 -> UpgradeCost(50, 15, 3, 0)
      [] level = 3 -> UpgradeCost(100, 30, 10, 1)
      [] OTHER -> UpgradeCost(200, 50, 20, 2)

\* Shop::getRangeUpgradeCost, a switch on rangeUpgradeLevel
getRangeUpgradeCost(level) ==
    CASE level = 0 -> UpgradeCost(15, 0, 0, 0)
      [] level = 1 -> UpgradeCost(30, 8, 0, 0)
      [] level = 2 -> UpgradeCost(60, 20, 5, 0)
      [] level = 3 -> UpgradeCost(120, 40, 15, 2)
      [] OTHER -> UpgradeCost(250, 75, 30, 5)

\* Shop::getMultiplierUpgradeCost, a switch on multiplierUpgradeLevel
getMultiplierUpgradeCost(level) ==
    CASE level = 0 -> UpgradeCost(25, 5, 0, 0)
      [] level = 1 -> UpgradeCost(50, 15, 3, 0)
      [] level = 2 -> UpgradeCost(100, 40, 12, 1)
      [] level = 3 -> UpgradeCost(200, 80, 25, 3)
      [] OTHER -> UpgradeCost(400, 150, 50, 10)

\* Inventory::hasEnough(type, quantity) of the inventory the shop is written
\* against: the count of the kind is at least the quantity
hasEnough(ores, k, q) == getOreCount(ores, k) >= q

\* Inventory::removeOre(type, quantity) of that inventory: false and no change
\* when the count is below the quantity, otherwise the count drops by it
removeOre(ores, k, q) ==
    IF getOreCount(ores, k) < q
    THEN [ok |-> FALSE, ores |-> ores]
    ELSE [ok |-> TRUE, ores |-> [ores EXCEPT ![k] = @ - q]]

\* A faulty test: the copper component alone is looked at
canAfford_CopperOnly(cost, ores) == hasEnough(ores, "Copper", cost.copper)

\* Shop::canAfford
canAfford(cost, ores) ==
    /\ hasEnough(ores, "Copper", cost.copper)
    /\ hasEnough(ores, "Iron", cost.iron)
    /\ hasEnough(ores, "Gold", cost.gold)
    /\ hasEnough(ores, "Diamond", cost.diamond)

\* Shop::deductCost: four removeOre calls, their results not looked at
deductCost(cost, ores) ==
    LET afterCopper == removeOre(ores, "Copper", cost.copper).ores
        afterIron == removeOre(afterCopper, "Iron", cost.iron).ores
        afterGold == removeOre(afterIron, "Gold", cost.gold).ores
    IN removeOre(afterGold, "Diamond", cost.diamond).ores

\* sf::Keyboard::Key, as far as Shop::handleInput tells keys apart
ShopKeys == {"Num1", "Num2", "Num3", "Other"}

\* The three level counters of the shop
ShopLevels(speed, range, multiplier) ==
    [speedUpgradeLevel |-> speed, rangeUpgradeLevel |-> range,
     multiplierUpgradeLevel |-> multiplier]

\* One case of the switch in Shop::handleInput: the purchase at this cost
PurchaseAt(cost, ores, levels, raised) ==
    IF canAfford(cost, ores)
    THEN [ok |-> TRUE, ores |-> deductCost(cost, ores), levels |-> raised]
    ELSE [ok |-> FALSE, ores |-> ores, levels |-> levels]

\* Shop::handleInput(key, inventory, player) as a function of the key, the
\* inventory map and the level counters.  The stat mutators of the player it
\* calls on a purchase belong to a Player that is not in the source; they
\* touch neither the inventory nor the counters.
ShopHandleInput(key, ores, levels) ==
    CASE key = "Num1" ->
            PurchaseAt(getSpeedUpgradeCost(levels.speedUpgradeLevel), ores, levels,
                       [levels EXCEPT !.speedUpgradeLevel = @ + 1])
      [] key = "Num2" ->
            PurchaseAt(getRangeUpgradeCost(levels.rangeUpgradeLevel), ores, levels,
                       [levels EXCEPT !.rangeUpgradeLevel = @ + 1])
      [] key = "Num3" ->
            PurchaseAt(getMultiplierUpgradeCost(levels.multiplierUpgradeLevel), ores, levels,
                       [levels EXCEPT !.multiplierUpgradeLevel = @ + 1])
      [] OTHER -> [ok |-> FALSE, ores |-> ores, levels |-> levels]

-----------------------------------------------------------------------------
(* The states the specifications start from *)

\* The band of rows placeOres(kind) scans, widened by one row each way for veins
OreMayLieAt(t, y) ==
    LET minDepth == CASE t = "OreCopper" -> COPPER_MIN_DEPTH
                      [] t = "OreIron" -> IRON_MIN_DEPTH
                      [] t = "OreGold" -> GOLD_MIN_DEPTH
                      [] t = "OreDiamond" -> DIAMOND_MIN_DEPTH
    IN y >= minDepth - 1 /\ y <= WORLD_HEIGHT - ORE_BOTTOM_MARGIN + 1

OreOrStone(t, y) == IF OreMayLieAt(t, y) THEN t ELSE "Stone"

\* One world generateTerrain can leave: air above, a dirt row with a gap, dirt
\* and stone below it, then stone with caves and ores, and two rows of bedrock.
\* The spawn column (c = 1) holds every tile type.
SampleType(x, y) ==
    LET d == y - SHALLOW_END
        c == (x + WORLD_WIDTH - WORLD_WIDTH \div 2 + 1) % 3
    IN IF y >= WORLD_HEIGHT - 2 THEN "Bedrock"
       ELSE IF y < SURFACE_ROWS - 1 THEN "Air"
       ELSE IF y < SURFACE_ROWS THEN (IF c = 1 THEN "Air" ELSE "Dirt")
       ELSE IF y < SHALLOW_END THEN (IF c = 2 THEN "Stone" ELSE "Dirt")
       ELSE IF c = 1 THEN
            (IF d = 0 THEN OreOrStone("OreCopper", y)
             ELSE IF d = 1 THEN OreOrStone("OreIron", y)
             ELSE IF d = 2 THEN OreOrStone("OreGold", y)
             ELSE IF d = 3 THEN OreOrStone("OreDiamond", y) ELSE "Stone")
       ELSE IF c = 0 THEN
            (IF d = 0 THEN "Air" ELSE IF d = 2 THEN OreOrStone("OreDiamond", y) ELSE "Stone")
       ELSE (IF d = 1 THEN "Air" ELSE "Stone")

SampleWorld == [c \in Coords |-> getTileProperties(SampleType(c[1], c[2]))]

\* Game::initialize: the spawn position
SpawnPosition == <<(WORLD_WIDTH \div 2) * TILE_SIZE, (SURFACE_ROWS - 1) * TILE_SIZE>>

\* Player::Player(startX, startY): the sprite on a tile corner of the spawn
\* column, from one tile above the grid to its last row, or beside the grid
StartPositions ==
    {<<SpawnPosition[1], cy * TILE_SIZE>> : cy \in (0 - 1)..(WORLD_HEIGHT - 1)}
      \cup {<<(0 - 2) * TILE_SIZE, SpawnPosition[2]>>, <<WORLD_WIDTH * TILE_SIZE, SpawnPosition[2]>>}

NoCall == [op |-> "init", val |-> "none"]
NoProbe == [x |-> 0, y |-> 0, power |-> 0]
\* The generator: before the first pass, and after the last
Generator(phase) ==
    [phase |-> phase, caves |-> 0, steps |-> 0, currentX |-> 0, currentY |-> 0,
     pass |-> 1, cursor |-> 0, seeds |-> 0, mined |-> 0]
Idle == Generator("done")

Cap(k) ==
    CASE k = "Copper" -> MaxCopper
      [] k = "Iron" -> MaxIron
      [] k = "Gold" -> MaxGold
      [] k = "Diamond" -> MaxDiamond

Quantities == (0 - NegQty)..MaxQty

\* The quantities handed to addOres and removeOres: the small ones and the largest int
Arguments == Quantities \cup {INT_MAX}

CapMax == CHOOSE c \in {Cap(k) : k \in OreTypes} : \A k \in OreTypes : Cap(k) <= c

\* Every ore map within the caps, kinds missing or present
OreMaps ==
    UNION {{m \in [S -> 0..CapMax] : \A k \in S : m[k] <= Cap(k)} : S \in SUBSET OreTypes}

-----------------------------------------------------------------------------
(* Operations on the inventory and the pickaxe *)

\* A bool a call returned, as ret records it
Returned(b) == IF b THEN "true" ELSE "false"

\* Shop::Shop: the three level counters start at 0
ShopConstructed ==
    speedUpgradeLevel = 0 /\ rangeUpgradeLevel = 0 /\ multiplierUpgradeLevel = 0

ShopUnchanged == UNCHANGED <<speedUpgradeLevel, rangeUpgradeLevel, multiplierUpgradeLevel>>

\* Game::Game and Player::Player: the loop flag set, the player at rest
GameConstructed == m_isRunning = TRUE /\ m_velocity = <<0, 0>>

LoopUnchanged == UNCHANGED <<m_isRunning, m_velocity>>

WorldAndUIUnchanged ==
    /\ UNCHANGED <<m_tiles, m_currentState, m_previousState, playerPos, gen, probe>>
    /\ ShopUnchanged
    /\ LoopUnchanged

\* The maps the model follows: every count in the game's range up to the cap
\* of its kind, or one count within a few quantities of an end of int and the
\* other counts 0
InGame(ores, k) == 0 <= getOreCount(ores, k) /\ getOreCount(ores, k) <= Cap(k)

AtAnEnd(ores, k) ==
    \/ getOreCount(ores, k) >= INT_MAX - MaxQty
    \/ getOreCount(ores, k) <= INT_MIN + Cap(k)

Followed(ores) ==
    \/ \A k \in OreTypes : InGame(ores, k)
    \/ \E k \in OreTypes :
          /\ AtAnEnd(ores, k)
          /\ \A j \in OreTypes \ {k} : getOreCount(ores, j) = 0

\* The process is running: a build that traps on signed overflow has not ended it
Running == ret.val # "trapped"

\* What a += on the count of k with quantity q leaves: the sum; on overflow the
\* wrapped sum, or with a trapping build the end of the process
Added(op, k, q, after) ==
    \/ /\ m_oreCounts' = after
       /\ ret' = [op |-> op, val |-> "void"]
    \/ /\ Overflows(getOreCount(m_oreCounts, k), q)
       /\ ret' = [op |-> op, val |-> "trapped"]
       /\ UNCHANGED m_oreCounts

\* Inventory::addOre(ore)
AddOre(k) ==
    /\ Running
    /\ Added("addOre", k, 1, IncrementOre(m_oreCounts, k, 1))
    /\ Followed(m_oreCounts')
    /\ UNCHANGED <<m_tier, m_power, m_speed>>
    /\ WorldAndUIUnchanged

\* Inventory::addOres(oreType, quantity)
AddOres(k, q) ==
    /\ Running
    /\ Added("addOres", k, q, addOresOn(m_oreCounts, k, q))
    /\ Followed(m_oreCounts')
    /\ UNCHANGED <<m_tier, m_power, m_speed>>
    /\ WorldAndUIUnchanged

\* Inventory::removeOres(oreType, quantity)
RemoveOres(k, q) ==
    /\ Running
    /\ ret' = [op |-> "removeOres", val |-> Returned(removeOresOn(m_oreCounts, k, q).ok)]
    /\ m_oreCounts' = removeOresOn(m_oreCounts, k, q).ores
    /\ Followed(m_oreCounts')
    /\ UNCHANGED <<m_tier, m_power, m_speed>>
    /\ WorldAndUIUnchanged

\* Inventory::clear
Clear ==
    /\ Running
    /\ m_oreCounts' = [k \in DOMAIN m_oreCounts |-> 0]
    /\ ret' = [op |-> "clear", val |-> "void"]
    /\ UNCHANGED <<m_tier, m_power, m_speed>>
    /\ WorldAndUIUnchanged

\* What a call that leaves the pickaxe at tier t does to its fields:
\* initializeProperties runs only after the tier has changed.
PickaxeBecomes(t) ==
    /\ m_tier' = t
    /\ IF t # m_tier
       THEN m_power' = PowerOf(t) /\ m_speed' = SpeedOf(t)
       ELSE UNCHANGED <<m_power, m_speed>>

\* Pickaxe::attemptUpgrade(availableOres) on the live map
AttemptUpgrade ==
    LET r == attemptUpgradeOn(m_tier, m_oreCounts) IN
    /\ Running
    /\ m_oreCounts' = r.ores
    /\ PickaxeBecomes(r.tier)
    /\ ret' = [op |-> "attemptUpgrade", val |-> Returned(r.ok)]
    /\ WorldAndUIUnchanged

\* Pickaxe::getUpgradeCost, a const call: ret holds the int it returned
GetUpgradeCost ==
    /\ Running
    /\ ret' = [op |-> "getUpgradeCost", val |-> "int", int |-> getUpgradeCost(m_tier)]
    /\ UNCHANGED <<m_oreCounts, m_tier, m_power, m_speed>>
    /\ WorldAndUIUnchanged

\* What a const call that computed r in an int returns: r, the wrapped value
\* where an operation overflowed, or with a trapping build the end of the process
Computed(op, r, shown) ==
    /\ \/ ret' = shown
       \/ r.overflow /\ ret' = [op |-> op, val |-> "trapped"]
    /\ UNCHANGED <<m_oreCounts, m_tier, m_power, m_speed>>
    /\ WorldAndUIUnchanged

\* Inventory::getTotalOreCount
GetTotalOreCount ==
    LET r == getTotalOreCount(m_oreCounts) IN
    /\ Running
    /\ Computed("getTotalOreCount", r, [op |-> "getTotalOreCount", val |-> "int", int |-> r.val])

\* Inventory::getTotalValue
GetTotalValue ==
    LET r == getTotalValue(m_oreCounts) IN
    /\ Running
    /\ Computed("getTotalValue", r, [op |-> "getTotalValue", val |-> "int", int |-> r.val])

\* Inventory::isEmpty
IsEmpty ==
    LET r == isEmpty(m_oreCounts) IN
    /\ Running
    /\ Computed("isEmpty", r, [op |-> "isEmpty", val |-> Returned(r.val)])

\* Inventory::hasEnoughOres(requiredOres), a const call
HasEnoughOres(requiredOres) ==
    /\ Running
    /\ ret' = [op |-> "hasEnoughOres", val |-> Returned(hasEnoughOres(m_oreCounts, requiredOres))]
    /\ UNCHANGED <<m_oreCounts, m_tier, m_power, m_speed>>
    /\ WorldAndUIUnchanged

\* Ore::getValue on an ore of kind k
GetValue(k) ==
    /\ Running
    /\ ret' = [op |-> "getValue", val |-> "int", int |-> getValue(k), kind |-> k]
    /\ UNCHANGED <<m_oreCounts, m_tier, m_power, m_speed>>
    /\ WorldAndUIUnchanged

\* UI::attemptPurchase(player)
AttemptPurchase ==
    LET r == attemptPurchaseOn(m_tier, m_oreCounts) IN
    /\ Running
    /\ m_oreCounts' = r.ores
    /\ PickaxeBecomes(r.tier)
    /\ ret' = [op |-> "attemptPurchase", val |-> "void"]
    /\ WorldAndUIUnchanged

\* Shop::handleInput(key, inventory, player)
ShopInput(key) ==
    LET r == ShopHandleInput(key, m_oreCounts,
                             ShopLevels(speedUpgradeLevel, rangeUpgradeLevel,
                                        multiplierUpgradeLevel))
    IN /\ \A level \in {r.levels.speedUpgradeLevel, r.levels.rangeUpgradeLevel,
                        r.levels.multiplierUpgradeLevel} : level <= MaxLevel
       /\ m_oreCounts' = r.ores
       /\ speedUpgradeLevel' = r.levels.speedUpgradeLevel
       /\ rangeUpgradeLevel' = r.levels.rangeUpgradeLevel
       /\ multiplierUpgradeLevel' = r.levels.multiplierUpgradeLevel
       /\ ret' = [op |-> "handleInput", val |-> Returned(r.ok), key |-> key]
       /\ UNCHANGED <<m_tier, m_power, m_speed, m_tiles, m_currentState, m_previousState,
                      playerPos, gen, probe>>
       /\ LoopUnchanged

-----------------------------------------------------------------------------
(* Operations on the world, and the key events of the game *)

\* Coordinates handed to the world: the spawn column, and cells around the grid
OutsideCoords ==
    {<<0 - 1, 0>>, <<WORLD_WIDTH, 0>>, <<0, 0 - 1>>, <<0, WORLD_HEIGHT>>,
     <<0 - 1, 0 - 1>>, <<WORLD_WIDTH, WORLD_HEIGHT>>}
ProbeCoords == {c \in Coords : c[1] = WORLD_WIDTH \div 2} \cup OutsideCoords

\* Pickaxe powers handed to mineTile: the five tiers' powers, and for every
\* hardness of a solid tile its half and the hundredth below it
Hardnesses == {getTileProperties(t).hardness : t \in TileTypes \ {"Air"}}
PowerSamples ==
    {PowerOf(t) : t \in PickaxeTiers}
      \cup {h \div 2 : h \in Hardnesses}
      \cup {h \div 2 - 1 : h \in Hardnesses}

\* World::mineTile(x, y, pickaxePower) called on its own; the ore goes to the caller
MineTile(x, y, pickaxePower) ==
    LET r == mineTileOn(m_tiles, x, y, pickaxePower) IN
    /\ gen.phase = "done"
    /\ r.tiles # m_tiles => gen.mined < MaxMined
    /\ m_tiles' = r.tiles
    /\ gen' = IF r.tiles # m_tiles THEN [gen EXCEPT !.mined = @ + 1] ELSE gen
    /\ ret' = [op |-> "mineTile", val |-> r.ore,
               tile |-> IF isValidCoordinate(x, y) THEN m_tiles[<<x, y>>].type ELSE "outside"]
    /\ UNCHANGED <<m_oreCounts, m_tier, m_power, m_speed, m_currentState, m_previousState,
                   playerPos, probe>>
    /\ ShopUnchanged
    /\ LoopUnchanged

\* Game::processEvents for one KeyPressed event: the UI handles it, then the
\* player if the UI is (now) in the Game state
KeyPressed(key) ==
    LET ui == handleEvent([current |-> m_currentState, previous |-> m_previousState], key)
        r == IF ui.current = "Game"
             THEN handleInputOn(key, playerPos, m_tiles, m_oreCounts, m_power)
             ELSE [tiles |-> m_tiles, ores |-> m_oreCounts]
    IN /\ m_currentState' = ui.current
       /\ m_previousState' = ui.previous
       /\ m_tiles' = r.tiles
       /\ m_oreCounts' = r.ores
       /\ ret' = [op |-> "keyPressed", val |-> key]
       /\ UNCHANGED <<m_tier, m_power, m_speed, playerPos, gen, probe>>
       /\ ShopUnchanged
       /\ LoopUnchanged

-----------------------------------------------------------------------------
(* Specifications *)

PickaxeOfTier(t) == m_tier = t /\ m_power = PowerOf(t) /\ m_speed = SpeedOf(t)

\* The game: a generated world, a player constructed somewhere on it with a
\* pickaxe of some tier and an empty inventory, the UI in the Game state
Init ==
    /\ m_oreCounts = EmptyInventory
    /\ \E t \in PickaxeTiers : PickaxeOfTier(t)
    /\ m_tiles = SampleWorld
    /\ m_currentState = "Game"
    /\ m_previousState = "Game"
    /\ playerPos \in StartPositions
    /\ gen = Idle
    /\ probe = NoProbe
    /\ ShopConstructed
    /\ GameConstructed
    /\ ret = NoCall

Next == \E key \in Keys : KeyPressed(key)

Spec == Init /\ [][Next]_vars

\* The world called directly, next to the Space presses of a player in the
\* Game state: a caller holds the coordinates of a cell and a pickaxe power
Probes == {[x |-> c[1], y |-> c[2], power |-> p] : c \in ProbeCoords, p \in PowerSamples}

InitWorld ==
    /\ m_oreCounts = EmptyInventory
    /\ \E t \in PickaxeTiers : PickaxeOfTier(t)
    /\ m_tiles = SampleWorld
    /\ m_currentState = "Game"
    /\ m_previousState = "Game"
    /\ playerPos \in StartPositions
    /\ gen = Idle
    /\ probe \in Probes
    /\ ShopConstructed
    /\ GameConstructed
    /\ ret = NoCall

NextWorld ==
    \/ KeyPressed("Space")
    \/ MineTile(probe.x, probe.y, probe.power)

SpecWorld == InitWorld /\ [][NextWorld]_vars

\* The inventory and pickaxe of a new player, driven through their operations
InitInv ==
    /\ m_oreCounts = EmptyInventory
    /\ PickaxeOfTier("Wood")
    /\ m_tiles = SampleWorld
    /\ m_currentState = "Game"
    /\ m_previousState = "Game"
    /\ playerPos = SpawnPosition
    /\ gen = Idle
    /\ probe = NoProbe
    /\ ShopConstructed
    /\ GameConstructed
    /\ ret = NoCall

NextInv ==
    \/ \E k \in OreTypes : AddOre(k)
    \/ \E k \in OreTypes, q \in Arguments : AddOres(k, q)
    \/ \E k \in OreTypes, q \in Arguments : RemoveOres(k, q)
    \/ Clear
    \/ AttemptUpgrade
    \/ AttemptPurchase
    \/ GetTotalOreCount
    \/ GetTotalValue
    \/ IsEmpty

SpecInv == InitInv /\ [][NextInv]_vars

\* A pickaxe of any tier handed any ore map
InitPick ==
    /\ m_oreCounts \in OreMaps
    /\ \E t \in PickaxeTiers : PickaxeOfTier(t)
    /\ m_tiles = SampleWorld
    /\ m_currentState = "Game"
    /\ m_previousState = "Game"
    /\ playerPos = SpawnPosition
    /\ gen = Idle
    /\ probe = NoProbe
    /\ ShopConstructed
    /\ GameConstructed
    /\ ret = NoCall

NextPick ==
    \/ AttemptUpgrade
    \/ GetUpgradeCost
    \/ \E k \in OreTypes : GetValue(k)

SpecPick == InitPick /\ [][NextPick]_vars

\* generateTerrain, first pass; the number of cave systems is drawn next
GenerateLayers ==
    /\ gen.phase = "layers"
    /\ \E missed \in SubsetsUpTo(DrawingCells, MaxMissed), numCaves \in 1..MaxCaves :
          /\ m_tiles' = generateLayers(missed)
          /\ gen' = [gen EXCEPT !.phase = "caves", !.caves = numCaves]
    /\ ret' = [op |-> "generateLayers", val |-> "void"]
    /\ UNCHANGED <<m_oreCounts, m_tier, m_power, m_speed, m_currentState, m_previousState,
                   playerPos, probe>>
    /\ ShopUnchanged
    /\ LoopUnchanged

\* generateCaves: a cave system starts, its start and length drawn
StartCave ==
    /\ gen.phase = "caves" /\ gen.steps = 0 /\ gen.caves > 0
    /\ \E startX \in 0..(WORLD_WIDTH - 1), startY \in CaveStartRows, caveLength \in 1..MaxCaveLength :
          gen' = [gen EXCEPT !.caves = @ - 1, !.steps = caveLength,
                             !.currentX = startX, !.currentY = startY]
    /\ ret' = [op |-> "startCave", val |-> "void"]
    /\ UNCHANGED <<m_oreCounts, m_tier, m_power, m_speed, m_tiles, m_currentState,
                   m_previousState, playerPos, probe>>
    /\ ShopUnchanged
    /\ LoopUnchanged

\* generateCaves: one step of the walk, a room carved and the position moved
CarveRoom ==
    /\ gen.phase = "caves" /\ gen.steps > 0
    /\ \E roomSize \in 1..3, direction \in 0..3 :
       \E spared \in SubsetsUpTo({c \in RoomCells(gen.currentX, gen.currentY, roomSize) :
                                     Carvable(m_tiles, c)}, MaxSpared) :
          /\ m_tiles' = carveRoom(m_tiles, gen.currentX, gen.currentY, roomSize, spared)
          /\ gen' = [gen EXCEPT !.steps = @ - 1,
                                !.currentX = MoveCave(gen.currentX, gen.currentY, direction)[1],
                                !.currentY = MoveCave(gen.currentX, gen.currentY, direction)[2]]
    /\ ret' = [op |-> "carveRoom", val |-> "void"]
    /\ UNCHANGED <<m_oreCounts, m_tier, m_power, m_speed, m_currentState, m_previousState,
                   playerPos, probe>>
    /\ ShopUnchanged
    /\ LoopUnchanged

\* generateCaves returns, its locals gone, and the first placeOres begins
CavesDone ==
    /\ gen.phase = "caves" /\ gen.steps = 0 /\ gen.caves = 0
    /\ gen' = [Generator("ores") EXCEPT !.pass = 1, !.cursor = 0]
    /\ ret' = [op |-> "generateCaves", val |-> "void"]
    /\ UNCHANGED <<m_oreCounts, m_tier, m_power, m_speed, m_tiles, m_currentState,
                   m_previousState, playerPos, probe>>
    /\ ShopUnchanged
    /\ LoopUnchanged

\* placeOres: the scan goes on to the next Stone cell whose draw is below the
\* rarity, places the ore there and, when the vein draw allows, in neighbours
PlaceSeed ==
    /\ gen.phase = "ores" /\ gen.seeds < MaxSeeds
    /\ \E c \in SeedCells(m_tiles, gen.pass, gen.cursor) :
       \E vein \in SubsetsUpTo(VeinCells(placeOre(m_tiles, OrePasses[gen.pass].oreType, c, {}), c),
                                MaxVeinTiles) :
          /\ m_tiles' = placeOre(m_tiles, OrePasses[gen.pass].oreType, c, vein)
          /\ gen' = [gen EXCEPT !.cursor = ScanIndex(c) + 1, !.seeds = @ + 1]
    /\ ret' = [op |-> "placeSeed", val |-> "void"]
    /\ UNCHANGED <<m_oreCounts, m_tier, m_power, m_speed, m_currentState, m_previousState,
                   playerPos, probe>>
    /\ ShopUnchanged
    /\ LoopUnchanged

\* placeOres returns: no draw of the rest of the scan was below the rarity.
\* The next pass begins, or generateTerrain returns.
EndPass ==
    /\ gen.phase = "ores"
    /\ gen' = IF gen.pass < Len(OrePasses)
              THEN [gen EXCEPT !.pass = @ + 1, !.cursor = 0]
              ELSE Generator("done")
    /\ ret' = [op |-> "placeOres", val |-> "void"]
    /\ UNCHANGED <<m_oreCounts, m_tier, m_power, m_speed, m_tiles, m_currentState,
                   m_previousState, playerPos, probe>>
    /\ ShopUnchanged
    /\ LoopUnchanged

\* World::World and the game on the world it generated: the constructor's
\* generateTerrain step by step, then calls of mineTile near the bottom of the
\* grid and Space presses of a player standing on the last row above the Bedrock
DeepCoords == {<<WORLD_WIDTH \div 2, y>> : y \in (WORLD_HEIGHT - 3)..WORLD_HEIGHT}
DeepPowers == {PowerOf("Diamond"), getTileProperties("Bedrock").hardness \div 2}

InitGen ==
    /\ m_oreCounts = EmptyInventory
    /\ PickaxeOfTier("Diamond")
    /\ m_tiles = BlankWorld
    /\ m_currentState = "Game"
    /\ m_previousState = "Game"
    /\ playerPos = <<SpawnPosition[1], (WORLD_HEIGHT - 3) * TILE_SIZE>>
    /\ gen = Generator("layers")
    /\ probe = NoProbe
    /\ ShopConstructed
    /\ GameConstructed
    /\ ret = NoCall

NextGen ==
    \/ GenerateLayers
    \/ StartCave
    \/ CarveRoom
    \/ CavesDone
    \/ PlaceSeed
    \/ EndPass
    \/ \E c \in DeepCoords, p \in DeepPowers : MineTile(c[1], c[2], p)
    \/ gen.phase = "done" /\ KeyPressed("Space")

SpecGen == InitGen /\ [][NextGen]_vars

\* The requirement maps handed to hasEnoughOres: up to MaxLines kinds with any
\* of the quantities, and the maps UI::attemptPurchase builds from the recipes
Requirements ==
    UNION {[S -> Quantities] : S \in SubsetsUpTo(OreTypes, MaxLines)}
      \cup {RecipeAsMap(getUpgradeRecipe(t)) : t \in PickaxeTiers \ {"Diamond"}}

\* The inventories a requirement is checked against: of every kind none, the
\* largest quantity asked for, one less, or the cap of the kind; or one kind at
\* an end of int and the others at 0
Inventories ==
    {m \in [OreTypes -> {0, MaxQty - 1, MaxQty, CapMax} \cup {Cap(k) : k \in OreTypes}] :
        \A k \in OreTypes : m[k] \in {0, Cap(k)} \/ (m[k] \in {MaxQty - 1, MaxQty} /\ m[k] <= Cap(k))}
      \cup {[EmptyInventory EXCEPT ![k] = end] : k \in OreTypes, end \in {INT_MIN, INT_MAX}}

\* A transaction on the inventory: the caller holds a requirement map, asks
\* hasEnoughOres and removes the lines of the map with removeOres
InitReq ==
    /\ m_oreCounts \in Inventories
    /\ PickaxeOfTier("Wood")
    /\ m_tiles = SampleWorld
    /\ m_currentState = "Shop"
    /\ m_previousState = "Game"
    /\ playerPos = SpawnPosition
    /\ gen = Idle
    /\ probe \in {[requiredOres |-> r] : r \in Requirements}
    /\ ShopConstructed
    /\ GameConstructed
    /\ ret = NoCall

NextReq ==
    \/ HasEnoughOres(probe.requiredOres)
    \/ \E k \in DOMAIN probe.requiredOres : RemoveOres(k, probe.requiredOres[k])

SpecReq == InitReq /\ [][NextReq]_vars

\* The upgrade tracks of the shop and the cost the shop asks on a track at a level
Tracks == {"speed", "range", "multiplier"}
TrackCost(track, level) ==
    CASE track = "speed" -> getSpeedUpgradeCost(level)
      [] track = "range" -> getRangeUpgradeCost(level)
      [] track = "multiplier" -> getMultiplierUpgradeCost(level)

\* The component of a cost in one kind
Component(cost, k) ==
    CASE k = "Copper" -> cost.copper
      [] k = "Iron" -> cost.iron
      [] k = "Gold" -> cost.gold
      [] k = "Diamond" -> cost.diamond

\* What the purchases that take a track from level 0 to a level cost in kind k
RECURSIVE SpentUpTo(_, _, _)
SpentUpTo(track, k, level) ==
    IF level = 0
    THEN 0
    ELSE Component(TrackCost(track, level - 1), k) + SpentUpTo(track, k, level - 1)

\* The counts of kind k an inventory comes to the shop with: none, what the
\* first two purchases of a track ask for or one less, and what taking every
\* track to the last level of the model costs
PurseCounts(k) ==
    LET first == {Component(TrackCost(track, level), k) : track \in Tracks, level \in 0..1} \ {0}
        full == SpentUpTo("speed", k, MaxLevel) + SpentUpTo("range", k, MaxLevel)
                  + SpentUpTo("multiplier", k, MaxLevel)
    IN {0, full} \cup first \cup {q - 1 : q \in first}

\* The shop: a newly constructed shop, the player's inventory holding what
\* mining brought in, and the purchase keys pressed in any order
InitShop ==
    /\ \E copper \in PurseCounts("Copper"), iron \in PurseCounts("Iron"),
          gold \in PurseCounts("Gold"), diamond \in PurseCounts("Diamond") :
          m_oreCounts = [k \in OreTypes |->
                            CASE k = "Copper" -> copper
                              [] k = "Iron" -> iron
                              [] k = "Gold" -> gold
                              [] k = "Diamond" -> diamond]
    /\ PickaxeOfTier("Wood")
    /\ m_tiles = SampleWorld
    /\ m_currentState = "Shop"
    /\ m_previousState = "Game"
    /\ playerPos = SpawnPosition
    /\ gen = Idle
    /\ probe = NoProbe
    /\ ShopConstructed
    /\ GameConstructed
    /\ ret = NoCall

NextShop == \E key \in ShopKeys : ShopInput(key)

SpecShop == InitShop /\ [][NextShop]_vars

-----------------------------------------------------------------------------
(* Ore::isWithinRange on an ore of any kind at one of two places, every whole
   pixel within MaxOffset of it on each axis, and the ranges 0..MaxRange and the
   two that bring range + radius to 0 and below it *)

IsWithinRange ==
    /\ ret' = [op |-> "isWithinRange",
               val |-> Returned(isWithinRange(probe.oreType, probe.position,
                                              probe.point, probe.range))]
    /\ UNCHANGED <<m_oreCounts, m_tier, m_power, m_speed>>
    /\ WorldAndUIUnchanged

InitOre ==
    /\ m_oreCounts = EmptyInventory
    /\ PickaxeOfTier("Wood")
    /\ m_tiles = SampleWorld
    /\ m_currentState = "Game"
    /\ m_previousState = "Game"
    /\ playerPos = SpawnPosition
    /\ gen = Idle
    /\ \E k \in OreTypes, position \in {<<0, 0>>, <<96, 40>>} :
           \E dx \in (0 - MaxOffset)..MaxOffset, dy \in (0 - MaxOffset)..MaxOffset :
               \E range \in (0..MaxRange) \cup {0 - getRadius(k), 0 - getRadius(k) - 1} :
                   probe = [oreType |-> k, position |-> position,
                            point |-> <<position[1] + dx, position[2] + dy>>,
                            range |-> range]
    /\ ShopConstructed
    /\ GameConstructed
    /\ ret = NoCall

SpecOre == InitOre /\ [][IsWithinRange]_vars

-----------------------------------------------------------------------------
(* Game::run, one frame at a time: the pending events, then the update with
   the movement keys held, at the capped deltaTime *)

\* The sequences of events one frame polls, of the events followed through
\* the loop: the window's Closed and the presses of Escape and Space
Pending == UNION {[1..n -> {"Closed", "Escape", "Space"}] : n \in 0..MaxEvents}

\* The directions the held movement keys give: none, or along one axis
Movements == {<<0, 0>>, <<1, 0>>, <<0 - 1, 0>>, <<0, 1>>, <<0, 0 - 1>>}

\* One pass of the loop of Game::run
Frame(events, movement, deltaTime) ==
    LET g == processEvents([running |-> TRUE,
                            ui |-> [current |-> m_currentState, previous |-> m_previousState],
                            tiles |-> m_tiles, ores |-> m_oreCounts, power |-> m_power],
                           events, playerPos)
        u == updateOn(playerPos, movement, deltaTime, g.tiles)
    IN /\ m_isRunning
       /\ g.tiles # m_tiles => gen.mined < MaxMined
       /\ gen' = IF g.tiles # m_tiles THEN [gen EXCEPT !.mined = @ + 1] ELSE gen
       /\ m_isRunning' = g.running
       /\ m_currentState' = g.ui.current
       /\ m_previousState' = g.ui.previous
       /\ m_tiles' = g.tiles
       /\ m_oreCounts' = g.ores
       /\ IF g.running
          THEN playerPos' = u.pos /\ m_velocity' = u.velocity
          ELSE UNCHANGED <<playerPos, m_velocity>>
       /\ ret' = [op |-> "frame", val |-> IF g.running THEN "updated" ELSE "skipped",
                  polled |-> {events[i] : i \in DOMAIN events}]
       /\ UNCHANGED <<m_tier, m_power, m_speed, probe>>
       /\ ShopUnchanged

\* Game::initialize: a generated world with the tile at the spawn either Air or
\* Dirt, the player at the spawn with a Wood pickaxe, the UI in the Game state
InitRun ==
    /\ m_oreCounts = EmptyInventory
    /\ PickaxeOfTier("Wood")
    /\ \E spawnType \in {"Air", "Dirt"} :
           m_tiles = [SampleWorld EXCEPT ![worldToTile(SpawnPosition[1], SpawnPosition[2])]
                                             = getTileProperties(spawnType)]
    /\ m_currentState = "Game"
    /\ m_previousState = "Game"
    /\ playerPos = SpawnPosition
    /\ gen = Idle
    /\ probe = NoProbe
    /\ ShopConstructed
    /\ GameConstructed
    /\ ret = NoCall

SpecRun ==
    InitRun /\ [][\E events \in Pending, movement \in Movements :
                     Frame(events, movement, MAX_DELTA_TIME)]_vars

-----------------------------------------------------------------------------
(* Mining and upgrading: Player::attemptMining at a chosen tile, and
   Pickaxe::attemptUpgrade on the player's inventory called directly or through
   UI::attemptPurchase, in a world rich in copper *)

\* A generated world with copper wherever the sample world has Stone that a
\* copper seed or its vein can reach
RichWorld ==
    [c \in Coords |->
        IF SampleWorld[c].type = "Stone" /\ OreMayLieAt("OreCopper", c[2])
        THEN getTileProperties("OreCopper") ELSE SampleWorld[c]]

\* The tiles mining is aimed at: every ore tile, and one tile each of Dirt,
\* Air and Bedrock and one outside the grid
MiningSpots ==
    {c \in Coords : RichWorld[c].type \in {"OreCopper", "OreIron", "OreGold", "OreDiamond"}}
      \cup {<<0, SURFACE_ROWS - 1>>, <<0, 0>>, <<0, WORLD_HEIGHT - 1>>, <<0 - 1, 0>>}

\* Player::attemptMining(worldX, worldY, world)
AttemptMining(worldX, worldY) ==
    LET r == attemptMiningOn(m_tiles, m_oreCounts, worldX, worldY, m_power) IN
    /\ m_tiles' = r.tiles
    /\ m_oreCounts' = r.ores
    /\ ret' = [op |-> "attemptMining", val |-> "done",
               tile |-> getTileType(m_tiles, worldX, worldY)]
    /\ UNCHANGED <<m_tier, m_power, m_speed, m_currentState, m_previousState,
                   playerPos, gen, probe>>
    /\ ShopUnchanged
    /\ LoopUnchanged

InitMine ==
    /\ m_oreCounts = EmptyInventory
    /\ PickaxeOfTier("Wood")
    /\ m_tiles = RichWorld
    /\ m_currentState = "Game"
    /\ m_previousState = "Game"
    /\ playerPos = SpawnPosition
    /\ gen = Idle
    /\ probe = NoProbe
    /\ ShopConstructed
    /\ GameConstructed
    /\ ret = NoCall

NextMine ==
    \/ \E c \in MiningSpots : AttemptMining(c[1], c[2])
    \/ AttemptUpgrade
    \/ AttemptPurchase

SpecMine == InitMine /\ [][NextMine]_vars

-----------------------------------------------------------------------------
(* The shop purchase and the pickaxe upgrade *)

\* The recipe table of the specification: what reaching the tier after t costs
RecipeCost(t, k) ==
    CASE t = "Wood" /\ k = "Copper" -> 5
      [] t = "Stone" /\ k = "Copper" -> 8
      [] t = "Stone" /\ k = "Iron" -> 3
      [] t = "Iron" /\ k = "Iron" -> 5
      [] t = "Iron" /\ k = "Gold" -> 2
      [] t = "Gold" /\ k = "Gold" -> 3
      [] t = "Gold" /\ k = "Diamond" -> 1
      [] OTHER -> 0

\* The tier order of the specification
Successor(t) ==
    CASE t = "Wood" -> "Stone"
      [] t = "Stone" -> "Iron"
      [] t = "Iron" -> "Gold"
      [] t = "Gold" -> "Diamond"

\* The map holds every line of the recipe out of tier t
Affords(ores, t) == \A k \in OreTypes : RecipeCost(t, k) > 0 => getOreCount(ores, k) >= RecipeCost(t, k)

\* C1: a shop purchase is all-or-nothing and charges the recipe once: with
\* every line of the next tier's recipe in the inventory the tier advances by
\* one and each count drops by exactly the recipe quantity; otherwise the tier
\* and all counts are unchanged.
C1_PurchaseChargesOnce ==
    [][AttemptPurchase =>
        IF m_tier # "Diamond" /\ Affords(m_oreCounts, m_tier)
        THEN /\ m_tier' = Successor(m_tier)
             /\ \A k \in OreTypes : m_oreCounts'[k] = m_oreCounts[k] - RecipeCost(m_tier, k)
        ELSE UNCHANGED <<m_tier, m_oreCounts>>]_vars

\* C2: attemptUpgrade fails without mutation: with a line of the next tier's
\* recipe short (count below the quantity, or the kind missing from the map)
\* it returns false and leaves tier, power, speed and every count unchanged.
C2_UpgradeFailsWithoutMutation ==
    [][(AttemptUpgrade /\ m_tier # "Diamond" /\ ~Affords(m_oreCounts, m_tier)) =>
        /\ ret'.val = "false"
        /\ UNCHANGED <<m_tier, m_power, m_speed, m_oreCounts>>]_vars

\* A Stone pickaxe was refused its upgrade with the copper line met and the
\* iron line short, the kind iron missing from the map
C2_Witness ==
    /\ ret.op = "attemptUpgrade" /\ ret.val = "false"
    /\ m_tier = "Stone"
    /\ "Copper" \in DOMAIN m_oreCounts /\ m_oreCounts["Copper"] >= 8
    /\ "Iron" \notin DOMAIN m_oreCounts

\* C3: attemptUpgrade on success consumes exactly the recipe: from a tier below
\* Diamond with every line met it returns true, the tier becomes the immediate
\* successor, each recipe kind drops by its quantity and no other kind changes.
C3_UpgradeConsumesRecipe ==
    [][(AttemptUpgrade /\ m_tier # "Diamond" /\ Affords(m_oreCounts, m_tier)) =>
        /\ ret'.val = "true"
        /\ m_tier' = Successor(m_tier)
        /\ DOMAIN m_oreCounts' = DOMAIN m_oreCounts
        /\ \A k \in DOMAIN m_oreCounts :
              m_oreCounts'[k] = m_oreCounts[k] - RecipeCost(m_tier, k)]_vars

\* An upgrade succeeded into the Stone tier and left no copper: Wood with Copper 5
C3_Witness ==
    /\ ret.op = "attemptUpgrade" /\ ret.val = "true"
    /\ m_tier = "Stone"
    /\ "Copper" \in DOMAIN m_oreCounts /\ m_oreCounts["Copper"] = 0

\* C4 as the specification states it: removeOres(k, n) with n above the count
\* of k returns false and changes no count; with 0 < n <= count it returns true
\* and lowers only the count of k, by exactly n.
C4_RemovalAtomic ==
    [][\A k \in OreTypes, n \in Arguments :
        RemoveOres(k, n) =>
            /\ n > m_oreCounts[k] => ret'.val = "false" /\ UNCHANGED m_oreCounts
            /\ (0 < n /\ n <= m_oreCounts[k]) =>
                  /\ ret'.val = "true"
                  /\ m_oreCounts'[k] = m_oreCounts[k] - n
                  /\ \A j \in OreTypes \ {k} : m_oreCounts'[j] = m_oreCounts[j]]_vars

\* What holds of removeOres at every count, the negative ones included:
\* removeOres(k, n) with n > 0 and n above the count of k returns false and
\* changes no count; with 0 < n <= count it returns true and lowers only the
\* count of k, by exactly n; with n <= 0 it returns true and changes no count.
C4_RemovalAtomicPositive ==
    [][\A k \in OreTypes, n \in Arguments :
        RemoveOres(k, n) =>
            /\ (n > 0 /\ n > m_oreCounts[k]) => ret'.val = "false" /\ UNCHANGED m_oreCounts
            /\ (0 < n /\ n <= m_oreCounts[k]) =>
                  /\ ret'.val = "true"
                  /\ m_oreCounts'[k] = m_oreCounts[k] - n
                  /\ \A j \in OreTypes \ {k} : m_oreCounts'[j] = m_oreCounts[j]
            /\ n <= 0 => ret'.val = "true" /\ UNCHANGED m_oreCounts]_vars

\* A removal was refused in an inventory that holds ores of every kind but
\* fewer than were asked for
C4_Witness ==
    /\ ret.op = "removeOres" /\ ret.val = "false"
    /\ \A k \in OreTypes : m_oreCounts[k] > 0 /\ m_oreCounts[k] < MaxQty

\* C5: in every state reached from the empty inventory by addOre, addOres,
\* removeOres, clear, attemptUpgrade on the live map and attemptPurchase, with
\* any quantities, every count is >= 0.
C5_CountsNeverNegative == \A k \in DOMAIN m_oreCounts : m_oreCounts[k] >= 0

-----------------------------------------------------------------------------
(* Mining *)

\* The hardness table of the specification, in hundredths
Hardness(t) ==
    CASE t = "Dirt" -> 50
      [] t = "Stone" -> 100
      [] t = "OreCopper" -> 120
      [] t = "OreIron" -> 150
      [] t = "OreGold" -> 200
      [] t = "OreDiamond" -> 300

\* The ore kind of an ore tile
KindOf(t) ==
    CASE t = "OreCopper" -> "Copper"
      [] t = "OreIron" -> "Iron"
      [] t = "OreGold" -> "Gold"
      [] t = "OreDiamond" -> "Diamond"

OreTiles == {"OreCopper", "OreIron", "OreGold", "OreDiamond"}

InGrid(c) == 0 <= c[1] /\ c[1] < WORLD_WIDTH /\ 0 <= c[2] /\ c[2] < WORLD_HEIGHT

\* The tile a Space press is aimed at, and its type when it lies in the grid
Target == MiningTarget(playerPos)
TargetType == m_tiles[Target].type

\* The cell a caller of mineTile names
Probed == <<probe.x, probe.y>>

\* C6: a Space press in the Game UI state aimed at an ore tile in the grid,
\* with power >= hardness x 0.5, turns that tile into Air and raises the count
\* of the matching kind by exactly 1, every other count unchanged; aimed at a
\* Stone or Dirt tile it turns the tile into Air and changes no count.
C6_SpaceMinesTile ==
    [][(KeyPressed("Space") /\ m_currentState = "Game" /\ InGrid(Target)) =>
        /\ (TargetType \in OreTiles /\ 2 * m_power >= Hardness(TargetType)) =>
              /\ m_tiles'[Target].type = "Air"
              /\ \A k \in OreTypes :
                    m_oreCounts'[k] = m_oreCounts[k] + (IF k = KindOf(TargetType) THEN 1 ELSE 0)
        /\ TargetType \in {"Stone", "Dirt"} =>
              /\ m_tiles'[Target].type = "Air"
              /\ UNCHANGED m_oreCounts]_vars

\* A Space press has mined the diamond ore under the player: the tile is Air
\* and the inventory holds one diamond and nothing else
C6_Witness ==
    /\ ret = [op |-> "keyPressed", val |-> "Space"]
    /\ InGrid(Target) /\ TargetType = "Air"
    /\ m_oreCounts = [EmptyInventory EXCEPT !["Diamond"] = 1]

\* C7: mining Air or Bedrock is a no-op: mineTile on such a tile, and a Space
\* press aimed at one, yield no ore and leave grid and inventory unchanged,
\* whatever the pickaxe power and tier.
C7_AirAndBedrockStay ==
    [][/\ (MineTile(probe.x, probe.y, probe.power) /\ InGrid(Probed)
                /\ m_tiles[Probed].type \in {"Air", "Bedrock"}) =>
            ret'.val = "none" /\ UNCHANGED <<m_tiles, m_oreCounts>>
       /\ (KeyPressed("Space") /\ InGrid(Target) /\ TargetType \in {"Air", "Bedrock"}) =>
            UNCHANGED <<m_tiles, m_oreCounts>>]_vars

\* mineTile was called on a Bedrock tile and returned no ore
C7_Witness ==
    /\ ret.op = "mineTile"
    /\ ret.tile = "Bedrock"
    /\ ret.val = "none"

\* C8: mining with power < hardness x 0.5 is a no-op, grid and inventory
\* unchanged, and with power = hardness x 0.5 it succeeds: the Wood pickaxe
\* (power 1.0) mines OreGold (hardness 2.0) and not OreDiamond (hardness 3.0).
C8_HalfHardnessDecides ==
    [][/\ (MineTile(probe.x, probe.y, probe.power) /\ InGrid(Probed)
                /\ m_tiles[Probed].type \notin {"Air", "Bedrock"}) =>
            IF 2 * probe.power < Hardness(m_tiles[Probed].type)
            THEN ret'.val = "none" /\ UNCHANGED <<m_tiles, m_oreCounts>>
            ELSE m_tiles'[Probed].type = "Air"
       /\ (KeyPressed("Space") /\ InGrid(Target) /\ TargetType \notin {"Air", "Bedrock"}) =>
            IF 2 * m_power < Hardness(TargetType)
            THEN UNCHANGED <<m_tiles, m_oreCounts>>
            ELSE m_tiles'[Target].type = "Air"
       /\ (KeyPressed("Space") /\ m_tier = "Wood" /\ InGrid(Target)) =>
            /\ TargetType = "OreGold" => m_tiles'[Target].type = "Air"
            /\ TargetType = "OreDiamond" => UNCHANGED <<m_tiles, m_oreCounts>>]_vars

\* The Wood pickaxe has mined the gold ore under the player, at the boundary
C8_Witness ==
    /\ ret.op = "keyPressed"
    /\ m_tier = "Wood"
    /\ m_oreCounts["Gold"] = 1
    /\ InGrid(Target) /\ TargetType = "Air"

\* The cells around the grid, two deep
Around ==
    {c \in ((0 - 2)..(WORLD_WIDTH + 1)) \X ((0 - 2)..(WORLD_HEIGHT + 1)) : ~InGrid(c)}

\* C9: outside the grid the world is inert solid Bedrock: getTileType returns
\* Bedrock and isTileSolid true, mineTile returns no ore and changes nothing,
\* and a Space press aimed outside the grid changes neither grid nor inventory.
C9_OutsideIsBedrock ==
    /\ [](\A c \in Around :
            /\ getTileType(m_tiles, c[1], c[2]) = "Bedrock"
            /\ isTileSolid(m_tiles, c[1], c[2]))
    /\ [][/\ (MineTile(probe.x, probe.y, probe.power) /\ ~InGrid(Probed)) =>
               ret'.val = "none" /\ UNCHANGED <<m_tiles, m_oreCounts>>
          /\ (KeyPressed("Space") /\ ~InGrid(Target)) =>
               UNCHANGED <<m_tiles, m_oreCounts>>]_vars

\* mineTile was called on a cell outside the grid and returned no ore
C9_Witness ==
    /\ ret.op = "mineTile"
    /\ ret.tile = "outside"
    /\ ret.val = "none"

-----------------------------------------------------------------------------
(* Bedrock *)

\* C10: the bottom two rows of the world are Bedrock after generation and
\* after any mining, and no step of cave carving, ore placement, vein
\* formation or mining changes a Bedrock tile to another type, whatever the
\* random choices.
C10_BedrockStays ==
    /\ [](gen.phase \in {"caves", "ores", "done"} =>
            \A c \in Coords : c[2] >= WORLD_HEIGHT - 2 => m_tiles[c].type = "Bedrock")
    /\ [][\A c \in Coords : m_tiles[c].type = "Bedrock" => m_tiles'[c].type = "Bedrock"]_vars

\* Generation is over, a room was carved around a cell of the last row above
\* the Bedrock, and mineTile was then called on a Bedrock tile
C10_Witness ==
    /\ gen.phase = "done"
    /\ \E x \in 0..(WORLD_WIDTH - 1) : m_tiles[<<x, WORLD_HEIGHT - 3>>].type = "Air"
    /\ ret.op = "mineTile" /\ ret.tile = "Bedrock"

-----------------------------------------------------------------------------
(* Ore placement *)

\* The ore tile types a pass after the given one places
RarerOres(pass) == {OrePasses[later].oreType : later \in (pass + 1)..Len(OrePasses)}

\* The rows of the pass: from its minimum depth to the common last row
InBand(c, pass) ==
    c[2] >= OrePasses[pass].minDepth /\ c[2] <= WORLD_HEIGHT - ORE_BOTTOM_MARGIN

\* The cells whose tile a step changed
Changed == {c \in Coords : m_tiles'[c] # m_tiles[c]}

\* C11 as stated: a rarer kind's pass can overwrite a tile that the Copper pass
\* converted. Whenever the scan of a later pass still has an OreCopper tile of
\* its band ahead of it and may place a seed, placing that pass's ore on this
\* tile is one of the steps it can take.
C11_RarerOverwritesCommoner ==
    \A c \in Coords :
        (/\ gen.phase = "ores" /\ gen.pass > 1 /\ gen.seeds < MaxSeeds
         /\ m_tiles[c].type = "OreCopper"
         /\ InBand(c, gen.pass) /\ ScanIndex(c) >= gen.cursor)
        => ENABLED (PlaceSeed /\ m_tiles'[c].type = OrePasses[gen.pass].oreType)

\* C11 amended: ore placement runs in the fixed order Copper, Iron, Gold,
\* Diamond, each pass placing its own kind only, and no pass changes a tile that
\* already holds an ore: a tile that is OreCopper after the Copper pass is
\* OreCopper when generation ends.
C11_EarlierOreKept ==
    /\ [](gen.phase = "ores" => gen.pass \in 1..Len(OrePasses))
    /\ [][gen.phase = "ores" =>
            /\ gen'.phase = "ores" => gen'.pass \in {gen.pass, gen.pass + 1}
            /\ gen'.phase # "ores" => gen.pass = Len(OrePasses) /\ gen'.phase = "done"
            /\ \A c \in Coords :
                  /\ m_tiles[c].type \in OreTiles => m_tiles'[c] = m_tiles[c]
                  /\ m_tiles'[c] # m_tiles[c] =>
                        m_tiles'[c] = getTileProperties(OrePasses[gen.pass].oreType)]_vars

\* Generation is over; an OreCopper tile lies in the band of a later pass, and
\* that pass, its scan having gone over the tile, placed its ore next to it
C11_Witness ==
    /\ gen.phase = "done" /\ gen.mined = 0
    /\ \E c \in Coords, d \in Coords :
          /\ m_tiles[c].type = "OreCopper"
          /\ m_tiles[d].type \in RarerOres(1)
          /\ \E pass \in 2..Len(OrePasses) :
                m_tiles[d].type = OrePasses[pass].oreType /\ InBand(c, pass)
          /\ ScanIndex(d) > ScanIndex(c)
          /\ d[1] - c[1] \in {0 - 1, 0, 1} /\ d[2] - c[2] \in {0, 1}

\* The cells next to c, c itself among them
Neighbourhood(c) == ((c[1] - 1)..(c[1] + 1)) \X ((c[2] - 1)..(c[2] + 1))

\* C12: ore placement and vein formation convert only tiles that are Stone at
\* the moment of conversion, so no Air, Dirt, Bedrock or ore tile is changed by
\* a placeOres pass; what a placement changes is the seed tile, a tile of the
\* pass's band, and tiles inside the grid among the 8 neighbours of the seed,
\* and each becomes the ore of the pass.
C12_OnlyStoneConverted ==
    [][gen.phase = "ores" =>
          /\ \A c \in Changed :
                /\ m_tiles[c].type = "Stone"
                /\ m_tiles'[c] = getTileProperties(OrePasses[gen.pass].oreType)
          /\ Changed # {} =>
                \E seed \in Changed :
                    /\ InBand(seed, gen.pass)
                    /\ ScanIndex(seed) >= gen.cursor
                    /\ gen'.cursor = ScanIndex(seed) + 1
                    /\ \A c \in Changed :
                          c \in Neighbourhood(seed) /\ isValidCoordinate(c[1], c[2])]_vars

\* A seed was just placed with a vein tile beside it, while another neighbour
\* of the seed, holding Air, Dirt or the ore of an earlier pass, was left alone
C12_Witness ==
    /\ gen.phase = "ores" /\ ret.op = "placeSeed"
    /\ \E seed \in Coords :
          /\ gen.cursor = ScanIndex(seed) + 1
          /\ m_tiles[seed].type = OrePasses[gen.pass].oreType
          /\ \E v \in (Neighbourhood(seed) \cap Coords) \ {seed} :
                m_tiles[v].type = OrePasses[gen.pass].oreType
          /\ \E n \in Neighbourhood(seed) \cap Coords :
                m_tiles[n].type \in {"Air", "Dirt"}
          /\ \E n \in Neighbourhood(seed) \cap Coords :
                m_tiles[n].type \in OreTiles \ {OrePasses[gen.pass].oreType}

-----------------------------------------------------------------------------
(* The pickaxe tiers and the cost of an upgrade *)

\* C13: Diamond is the terminal pickaxe tier: canUpgrade is false exactly at
\* Diamond, and at Diamond attemptUpgrade returns false and changes neither the
\* tier, nor the power and speed, nor any ore count, whatever the ore map holds.
C13_DiamondTerminal ==
    /\ [](canUpgrade(m_tier) <=> m_tier # "Diamond")
    /\ [][(AttemptUpgrade /\ m_tier = "Diamond") =>
            /\ ret'.val = "false"
            /\ UNCHANGED <<m_tier, m_power, m_speed, m_oreCounts>>]_vars

\* A Diamond pickaxe was refused an upgrade with every kind at its cap in the map
C13_Witness ==
    /\ ret.op = "attemptUpgrade" /\ ret.val = "false"
    /\ m_tier = "Diamond"
    /\ DOMAIN m_oreCounts = OreTypes
    /\ \A k \in OreTypes : m_oreCounts[k] = Cap(k)

\* The cost table of the specification
CostOfUpgrade(t) ==
    CASE t = "Wood" -> 5
      [] t = "Stone" -> 17
      [] t = "Iron" -> 31
      [] t = "Gold" -> 44
      [] t = "Diamond" -> 0

\* The trade values of the specification
ValueOf(k) ==
    CASE k = "Copper" -> 1
      [] k = "Iron" -> 3
      [] k = "Gold" -> 8
      [] k = "Diamond" -> 20

\* C14: getUpgradeCost is the sum over the next tier's recipe of ore value
\* times quantity, and 0 at the terminal tier: Wood 5, Stone 17, Iron 31,
\* Gold 44, Diamond 0.
C14_UpgradeCost ==
    ret.op = "getUpgradeCost" =>
        /\ ret.int = CostOfUpgrade(m_tier)
        /\ ret.int = ValueOf("Copper") * RecipeCost(m_tier, "Copper")
                     + ValueOf("Iron") * RecipeCost(m_tier, "Iron")
                     + ValueOf("Gold") * RecipeCost(m_tier, "Gold")
                     + ValueOf("Diamond") * RecipeCost(m_tier, "Diamond")

\* getUpgradeCost was called on a Gold pickaxe, whose recipe has the two
\* dearest kinds, and returned 44
C14_Witness ==
    ret.op = "getUpgradeCost" /\ m_tier = "Gold" /\ ret.int = 44

-----------------------------------------------------------------------------
(* The shop of the stat upgrades *)

\* No component of cost a is above the same component of cost b
CostAtMost(a, b) == \A k \in OreTypes : Component(a, k) <= Component(b, k)

\* The level a track stands at
LevelOf(track) ==
    CASE track = "speed" -> speedUpgradeLevel
      [] track = "range" -> rangeUpgradeLevel
      [] track = "multiplier" -> multiplierUpgradeLevel

\* The cost tables of the specification: levels 0 to 3, then the flat cost
CostTable(track) ==
    CASE track = "speed" ->
            <<UpgradeCost(10, 0, 0, 0), UpgradeCost(20, 5, 0, 0), UpgradeCost(50, 15, 3, 0),
              UpgradeCost(100, 30, 10, 1), UpgradeCost(200, 50, 20, 2)>>
      [] track = "range" ->
            <<UpgradeCost(15, 0, 0, 0), UpgradeCost(30, 8, 0, 0), UpgradeCost(60, 20, 5, 0),
              UpgradeCost(120, 40, 15, 2), UpgradeCost(250, 75, 30, 5)>>
      [] track = "multiplier" ->
            <<UpgradeCost(25, 5, 0, 0), UpgradeCost(50, 15, 3, 0), UpgradeCost(100, 40, 12, 1),
              UpgradeCost(200, 80, 25, 3), UpgradeCost(400, 150, 50, 10)>>

\* C15: shop cost monotonicity: on each of the three tracks, at every level
\* the shop reaches, the cost at the next level is at least the cost at this
\* level in each of the four ore components, the step from level 3 to the flat
\* cost of the levels from 4 on included, and that flat cost stays the same.
C15_CostNeverCheaper ==
    \A track \in Tracks :
        /\ CostAtMost(TrackCost(track, LevelOf(track)), TrackCost(track, LevelOf(track) + 1))
        /\ LevelOf(track) >= 4 =>
              TrackCost(track, LevelOf(track) + 1) = TrackCost(track, LevelOf(track))

\* Purchases took the speed track past level 3 and on to the flat cost: the
\* last one, at level 4, was paid at the flat cost
C15_Witness ==
    /\ ret.op = "handleInput" /\ ret.val = "true" /\ ret.key = "Num1"
    /\ speedUpgradeLevel = MaxLevel
    /\ rangeUpgradeLevel >= 4 /\ multiplierUpgradeLevel >= 4

\* The track a purchase key selects
TrackOfKey(key) ==
    CASE key = "Num1" -> "speed"
      [] key = "Num2" -> "range"
      [] key = "Num3" -> "multiplier"

\* The cost the specification's table asks on a track at a level
TableCost(track, level) == CostTable(track)[IF level >= 4 THEN 5 ELSE level + 1]

\* The level of a track after the step
LevelOfNext(track) ==
    CASE track = "speed" -> speedUpgradeLevel'
      [] track = "range" -> rangeUpgradeLevel'
      [] track = "multiplier" -> multiplierUpgradeLevel'

\* C16: a stat-upgrade purchase is all-or-nothing per track: with key 1, 2 or
\* 3, if the inventory lacks a component of the selected track's cost at its
\* current level the call returns false and the inventory and the three levels
\* are unchanged; otherwise it returns true, each count drops by exactly the
\* cost component, the selected track's level rises by exactly 1 and the other
\* two levels are unchanged.  Any other key returns false and changes nothing.
C16_PurchaseAllOrNothing ==
    [][\A key \in ShopKeys :
        ShopInput(key) =>
            IF key \in {"Num1", "Num2", "Num3"}
               /\ \A k \in OreTypes :
                     m_oreCounts[k] >= Component(TableCost(TrackOfKey(key), LevelOf(TrackOfKey(key))), k)
            THEN /\ ret'.val = "true"
                 /\ \A k \in OreTypes :
                       m_oreCounts'[k] = m_oreCounts[k]
                          - Component(TableCost(TrackOfKey(key), LevelOf(TrackOfKey(key))), k)
                 /\ \A track \in Tracks :
                       LevelOfNext(track) = LevelOf(track) + (IF track = TrackOfKey(key) THEN 1 ELSE 0)
            ELSE /\ ret'.val = "false"
                 /\ UNCHANGED <<m_oreCounts, speedUpgradeLevel, rangeUpgradeLevel,
                                multiplierUpgradeLevel>>]_vars

\* A multiplier purchase at level 1 was refused for one gold short, the copper
\* and iron components in the inventory, after the purchase at level 0 was made
C16_Witness ==
    /\ ret.op = "handleInput" /\ ret.val = "false" /\ ret.key = "Num3"
    /\ multiplierUpgradeLevel = 1
    /\ m_oreCounts["Copper"] >= 50 /\ m_oreCounts["Iron"] >= 15
    /\ m_oreCounts["Gold"] = 2

-----------------------------------------------------------------------------
(* The inventory: round trip, totals, requirements *)

\* C17: inventory round trip: for every kind k, every quantity n >= 0 and
\* every inventory, addOres(k, n) followed by removeOres(k, n) returns true and
\* restores the count of every kind.  After each addOres(k, n) step the
\* process is still running, and removeOres(k, n) on the map the step left
\* returns true and leaves the map the step started from.
C17_RoundTrip ==
    [][\A k \in OreTypes, n \in Arguments :
        (n >= 0 /\ AddOres(k, n)) =>
            /\ ret'.val # "trapped"
            /\ removeOresOn(m_oreCounts', k, n).ok
            /\ removeOresOn(m_oreCounts', k, n).ores = m_oreCounts]_vars

\* The unit of the two-part form of a sum that may lie outside int
Half == 2^16

\* The sum over the kinds of weight times count, as the pair <<h, l>> with
\* sum = h * Half + l and 0 <= l < Half
WeightedSum(ores, weight(_)) ==
    LET high == weight("Copper") * (ores["Copper"] \div Half) + weight("Iron") * (ores["Iron"] \div Half)
                  + weight("Gold") * (ores["Gold"] \div Half)
                  + weight("Diamond") * (ores["Diamond"] \div Half)
        low == weight("Copper") * (ores["Copper"] % Half) + weight("Iron") * (ores["Iron"] % Half)
                 + weight("Gold") * (ores["Gold"] % Half)
                 + weight("Diamond") * (ores["Diamond"] % Half)
    IN <<high + low \div Half, low % Half>>

\* An int in the same two-part form
TwoPart(n) == <<n \div Half, n % Half>>

One(k) == 1

\* C18: in every reachable inventory state getTotalOreCount is the sum of the
\* four counts, getTotalValue is 1 x Copper + 3 x Iron + 8 x Gold + 20 x
\* Diamond counts, and isEmpty is true exactly when the sum of the counts is
\* 0; a newly constructed inventory is empty.
C18_Totals ==
    /\ ret.op = "getTotalOreCount" =>
          ret.val = "int" /\ TwoPart(ret.int) = WeightedSum(m_oreCounts, One)
    /\ ret.op = "getTotalValue" =>
          ret.val = "int" /\ TwoPart(ret.int) = WeightedSum(m_oreCounts, ValueOf)
    /\ ret.op = "isEmpty" =>
          /\ ret.val \in {"true", "false"}
          /\ ret.val = "true" <=> WeightedSum(m_oreCounts, One) = TwoPart(0)
    /\ ret.op = "init" => isEmpty(m_oreCounts).val

\* removeOres called for the lines of the requirement map one after another,
\* in key order, returns true every time
RECURSIVE EveryRemovalSucceeds(_, _, _)
EveryRemovalSucceeds(ores, requiredOres, kinds) ==
    IF kinds = {} THEN TRUE
    ELSE LET k == CHOOSE j \in kinds : \A l \in kinds : OreRank(j) <= OreRank(l)
             r == removeOresOn(ores, k, requiredOres[k])
         IN r.ok /\ EveryRemovalSucceeds(r.ores, requiredOres, kinds \ {k})

\* C19: hasEnoughOres(requirements) is true exactly when count(k) >= q for
\* every entry (k, q) of the requirements (so true for the empty map), it
\* changes no count, and whenever it returns true, removing the lines of the
\* requirements one after another with removeOres succeeds for every line.
C19_HasEnoughOres ==
    [][HasEnoughOres(probe.requiredOres) =>
        /\ ret'.val = "true" <=>
              \A k \in DOMAIN probe.requiredOres : m_oreCounts[k] >= probe.requiredOres[k]
        /\ ret'.val \in {"true", "false"}
        /\ UNCHANGED m_oreCounts
        /\ ret'.val = "true" =>
              EveryRemovalSucceeds(m_oreCounts, probe.requiredOres, DOMAIN probe.requiredOres)]_vars

\* hasEnoughOres returned true for a requirement of two lines, both met with
\* nothing to spare, in an inventory that holds other kinds too
C19_Witness ==
    /\ ret.op = "hasEnoughOres" /\ ret.val = "true"
    /\ "requiredOres" \in DOMAIN probe
    /\ DOMAIN probe.requiredOres = {"Copper", "Iron"}
    /\ \A k \in DOMAIN probe.requiredOres :
          probe.requiredOres[k] > 0 /\ m_oreCounts[k] = probe.requiredOres[k]
    /\ m_oreCounts["Gold"] > 0

-----------------------------------------------------------------------------
(* The ore catalog *)

\* C20: the ore trade values are the fixed table Copper 1, Iron 3, Gold 8,
\* Diamond 20, and they are strictly increasing in the rarity order Copper <
\* Iron < Gold < Diamond: the value getValue returned for a kind is the table's
\* and is above the value of every commoner kind.
C20_TradeValues ==
    ret.op = "getValue" =>
        /\ ret.int = ValueOf(ret.kind)
        /\ \A j \in OreTypes : OreRank(j) < OreRank(ret.kind) => getValue(j) < ret.int
        /\ \A j \in OreTypes : OreRank(j) > OreRank(ret.kind) => getValue(j) > ret.int

\* getValue was called on a diamond ore and returned 20
C20_Witness ==
    ret.op = "getValue" /\ ret.kind = "Diamond" /\ ret.int = 20

-----------------------------------------------------------------------------
(* Proximity mining *)

SquaredDistance == 
    (probe.point[1] - probe.position[1]) * (probe.point[1] - probe.position[1])
    + (probe.point[2] - probe.position[2]) * (probe.point[2] - probe.position[2])

Reach == probe.range + getRadius(probe.oreType)

-----------------------------------------------------------------------------
(* The loop of Game::run *)

\* The frame just run polled the event e
Polled(e) == e \in ret'.polled

\* C22: game logic is updated only while the game is not paused: a frame that
\* finds the UI Paused and leaves it Paused moves neither the player nor any tile
C22_NoUpdateWhilePaused ==
    [][(m_currentState = "Paused" /\ m_currentState' = "Paused" /\ ~Polled("Escape"))
          => (playerPos' = playerPos /\ m_tiles' = m_tiles)]_vars

-----------------------------------------------------------------------------
(* The UI in front of the player *)

\* C23: the player's key actions are gated by the UI state: an event the UI
\* leaves outside the Game state does not reach the player, so a Space press
\* received while the UI is in Inventory, Shop or Paused changes no tile and
\* no inventory count
C23_PlayerGatedByUI ==
    [][/\ (ret'.op = "keyPressed" /\ m_currentState' # "Game")
            => (m_tiles' = m_tiles /\ m_oreCounts' = m_oreCounts)
       /\ (ret'.op = "keyPressed" /\ ret'.val = "Space" /\ m_currentState # "Game")
            => (m_tiles' = m_tiles /\ m_oreCounts' = m_oreCounts)]_vars

\* Space pressed while paused over an ore the pickaxe could mine: the ore is
\* still there and the inventory still empty
C23_Witness ==
    /\ ret = [op |-> "keyPressed", val |-> "Space"]
    /\ m_currentState = "Paused"
    /\ InGrid(Target) /\ TargetType \in OreTiles
    /\ 2 * m_power >= Hardness(TargetType)
    /\ m_oreCounts = EmptyInventory

\* The transitions of the UI screen by key
ScreenAfter(state, key) ==
    CASE key = "Escape" -> (IF state = "Game" THEN "Paused" ELSE "Game")
      [] key = "I" -> (IF state = "Inventory" THEN "Game" ELSE "Inventory")
      [] key = "B" -> (IF state = "Shop" THEN "Game" ELSE "Shop")
      [] OTHER -> state

\* C24: the UI screen starts in Game and follows the key transitions: Escape
\* takes Game to Paused and any other state to Game, I takes Inventory to Game
\* and any other state to Inventory, B takes Shop to Game and any other state
\* to Shop, any other key changes nothing; after every change of state
\* m_previousState holds the state left; and from every state one key press at
\* most brings Game back
C24_ScreenStateMachine ==
    /\ [](ret.op = "init" => m_currentState = "Game")
    /\ [](m_currentState \in UIStates)
    /\ [][ret'.op = "keyPressed" =>
            /\ m_currentState' = ScreenAfter(m_currentState, ret'.val)
            /\ m_currentState' # m_currentState => m_previousState' = m_currentState]_vars
    /\ [](m_currentState = "Game"
            \/ ENABLED (\E key \in Keys : KeyPressed(key) /\ m_currentState' = "Game"))

\* The shop opened straight from the pause screen
C24_Witness ==
    /\ ret = [op |-> "keyPressed", val |-> "B"]
    /\ m_currentState = "Shop"
    /\ m_previousState = "Paused"

\* C25 as claimed: the run ends once a Closed event has been processed, with no
\* further update, and pressing Escape ends it too
C25_ClosedOrEscapeEndsRun ==
    [][/\ Polled("Closed") => (~m_isRunning' /\ ret'.val = "skipped")
       /\ Polled("Escape") => ~m_isRunning']_vars

\* C25: the main loop runs until the window is closed: the frame that processes
\* a Closed event clears m_isRunning and skips the update, and no frame follows
\* it; a frame without one keeps the loop running, whatever Escape presses it
\* holds
C25_RunsUntilClosed ==
    /\ [][/\ Polled("Closed") =>
               /\ ~m_isRunning' /\ ret'.val = "skipped"
               /\ playerPos' = playerPos /\ m_velocity' = m_velocity
          /\ ~Polled("Closed") => (m_isRunning' /\ ret'.val = "updated")]_vars
    /\ [](~m_isRunning =>
            ~ENABLED (\E events \in Pending, movement \in Movements :
                          Frame(events, movement, MAX_DELTA_TIME)))

\* The window closed in the frame that paused the game, the player on the
\* move: the loop flag is off and the velocity is that of the frame before
C25_Witness ==
    /\ ~m_isRunning
    /\ ret.op = "frame" /\ ret.polled = {"Escape", "Closed"}
    /\ m_currentState = "Paused"
    /\ m_velocity # <<0, 0>>

-----------------------------------------------------------------------------
(* The player among the tiles *)

\* The tiles a 32x32 sprite at pos lies over, by floor division: left of
\* pixel 0 and above it lie the columns and rows outside the grid
Overlapped(pos) ==
    {<<x, y>> : x \in (pos[1] \div TILE_SIZE)..((pos[1] + PLAYER_SIZE - 1) \div TILE_SIZE),
                y \in (pos[2] \div TILE_SIZE)..((pos[2] + PLAYER_SIZE - 1) \div TILE_SIZE)}

InsideSolid(pos, tiles) == \E c \in Overlapped(pos) : isTileSolid(tiles, c[1], c[2])

\* C26: from the spawn on, in any generated world, no tile under the player's
\* 32x32 bounds is solid; and a movement step whose target lies over a solid
\* or out-of-bounds tile leaves the position unchanged and zeroes the
\* velocity: the player moves only onto free ground, and an update that does
\* not move the player leaves the velocity zero
C26_NeverInsideSolid ==
    /\ [](~InsideSolid(playerPos, m_tiles))
    /\ [][(ret'.op = "frame" /\ ret'.val = "updated") =>
             /\ playerPos' # playerPos => ~InsideSolid(playerPos', m_tiles')
             /\ playerPos' = playerPos => m_velocity' = <<0, 0>>]_vars

-----------------------------------------------------------------------------
(* Ore conservation *)

\* The ore tiles of kind k in a grid
TilesOfKind(tiles, k) == Cardinality({c \in Coords : tiles[c].type \in OreTiles
                                                      /\ KindOf(tiles[c].type) = k})

\* What the upgrades from Wood up to tier t have consumed of kind k
ConsumedUpTo(t, k) ==
    CASE t = "Wood" -> 0
      [] t = "Stone" -> RecipeCost("Wood", k)
      [] t = "Iron" -> RecipeCost("Wood", k) + RecipeCost("Stone", k)
      [] t = "Gold" -> RecipeCost("Wood", k) + RecipeCost("Stone", k) + RecipeCost("Iron", k)
      [] t = "Diamond" -> RecipeCost("Wood", k) + RecipeCost("Stone", k)
                            + RecipeCost("Iron", k) + RecipeCost("Gold", k)

\* C27: ore is conserved: for each kind, the ore tiles in the grid, the
\* inventory count and what the successful upgrades consumed add up to the ore
\* tiles of the freshly generated world; and a count grows only by mining a
\* tile of its kind, by one
C27_OreConserved ==
    /\ [](\A k \in OreTypes :
            TilesOfKind(m_tiles, k) + m_oreCounts[k] + ConsumedUpTo(m_tier, k)
                = TilesOfKind(RichWorld, k))
    /\ [][\A k \in OreTypes :
            m_oreCounts'[k] > m_oreCounts[k] =>
                /\ ret'.op = "attemptMining"
                /\ ret'.tile \in OreTiles /\ KindOf(ret'.tile) = k
                /\ m_oreCounts'[k] = m_oreCounts[k] + 1
                /\ TilesOfKind(m_tiles', k) = TilesOfKind(m_tiles, k) - 1]_vars

-----------------------------------------------------------------------------
(* The pickaxe tiers *)

\* The ore tile that drops kind k, and the kinds the recipe past tier t names
TileOfKind(k) == CHOOSE t \in OreTiles : KindOf(t) = k
KindsNeeded(t) == {getUpgradeRecipe(t)[i].oreType : i \in DOMAIN getUpgradeRecipe(t)}

\* Power p (in hundredths) mines a tile of type t: p >= hardness x 0.5
Mines(p, t) == 2 * p >= getTileProperties(t).hardness

\* C28: tier progression cannot deadlock on mining power: at every tier with
\* a further upgrade the pickaxe can mine the ore tile of every kind the
\* recipe of that upgrade names; Wood is the only tier too weak for OreDiamond
\* and its recipe names no Diamond
C28_RecipeOresMineable ==
    /\ canUpgrade(m_tier) => \A k \in KindsNeeded(m_tier) : Mines(m_power, TileOfKind(k))
    /\ ~Mines(m_power, "OreDiamond") <=> m_tier = "Wood"
    /\ m_tier = "Wood" => "Diamond" \notin KindsNeeded(m_tier)

\* The upgrade to Gold has just succeeded: the next recipe names Diamond, and
\* the Gold pickaxe mines OreDiamond
C28_Witness ==
    /\ ret = [op |-> "attemptUpgrade", val |-> "true"]
    /\ m_tier = "Gold"
    /\ "Diamond" \in KindsNeeded(m_tier)
    /\ Mines(m_power, "OreDiamond")

\* The table of the tiers: power and speed in hundredths
TableOf(t) ==
    CASE t = "Wood" -> [power |-> 100, speed |-> 100]
      [] t = "Stone" -> [power |-> 200, speed |-> 120]
      [] t = "Iron" -> [power |-> 400, speed |-> 150]
      [] t = "Gold" -> [power |-> 700, speed |-> 200]
      [] t = "Diamond" -> [power |-> 1200, speed |-> 300]

\* C29: from Wood on, the tier never decreases and rises by at most one step
\* per call; power and speed are always the table's entry for the tier (Wood
\* 1/1.0, Stone 2/1.2, Iron 4/1.5, Gold 7/2.0, Diamond 12/3.0), both strictly
\* increasing with the tier; each successful attemptUpgrade consumes exactly
\* the recipe out of its tier, so that reaching Diamond from Wood consumes 13
\* Copper, 8 Iron, 5 Gold and 1 Diamond in all
C29_TierProgression ==
    /\ [](m_power = TableOf(m_tier).power /\ m_speed = TableOf(m_tier).speed)
    /\ [](\A t \in PickaxeTiers \ {"Diamond"} :
            /\ TierRank(getNextTier(t)) = TierRank(t) + 1
            /\ PowerOf(getNextTier(t)) > PowerOf(t)
            /\ SpeedOf(getNextTier(t)) > SpeedOf(t))
    /\ [][/\ TierRank(m_tier') \in {TierRank(m_tier), TierRank(m_tier) + 1}
          /\ (ret'.op = "attemptUpgrade" /\ m_tier' # m_tier) =>
                /\ ret'.val = "true"
                /\ \A k \in OreTypes :
                      getOreCount(m_oreCounts', k)
                          = getOreCount(m_oreCounts, k) - RecipeCost(m_tier, k)]_vars
    /\ [](<<ConsumedUpTo("Diamond", "Copper"), ConsumedUpTo("Diamond", "Iron"),
            ConsumedUpTo("Diamond", "Gold"), ConsumedUpTo("Diamond", "Diamond")>>
              = <<13, 8, 5, 1>>)

\* The last upgrade has succeeded on exactly its recipe: a Diamond pickaxe
\* reached from Wood, the inventory empty again
C29_Witness ==
    /\ ret = [op |-> "attemptUpgrade", val |-> "true"]
    /\ m_tier = "Diamond"
    /\ m_power = 1200 /\ m_speed = 300
    /\ \A k \in OreTypes : getOreCount(m_oreCounts, k) = 0

-----------------------------------------------------------------------------
(* The grid after generation *)

\* The hardness of every tile type, in hundredths
FixedHardness(t) ==
    CASE t = "Air" -> 0
      [] t = "Bedrock" -> 100000
      [] OTHER -> Hardness(t)

\* The cell the call just made was aimed at
Aimed == IF ret'.op = "mineTile" THEN Probed ELSE Target

\* C30: after generation a mineTile call changes at most the tile it is aimed
\* at, and only from a type other than Air and Bedrock to Air: every other
\* tile is unchanged and an Air tile stays Air; and every tile is solid exactly
\* when its type is not Air, with the hardness fixed for its type
C30_OnlyTargetBecomesAir ==
    /\ [][\A c \in Coords :
            /\ m_tiles'[c] # m_tiles[c] =>
                  /\ c = Aimed
                  /\ m_tiles[c].type \notin {"Air", "Bedrock"}
                  /\ m_tiles'[c].type = "Air"
            /\ m_tiles[c].type = "Air" => m_tiles'[c].type = "Air"]_vars
    /\ [](\A c \in Coords :
            /\ m_tiles[c].isSolid <=> m_tiles[c].type # "Air"
            /\ m_tiles[c].hardness = FixedHardness(m_tiles[c].type))

\* mineTile has turned the cell it was called on into Air and left the rest
\* of the generated grid as it was
C30_Witness ==
    /\ ret.op = "mineTile" /\ ret.val # "none"
    /\ InGrid(Probed)
    /\ m_tiles[Probed].type = "Air" /\ SampleWorld[Probed].type # "Air"
    /\ \A c \in Coords \ {Probed} : m_tiles[c] = SampleWorld[c]

====
